---- MODULE Spec2Model ----
(***************************************************************************)
(* Model of cate-desktop:                                                   *)
(*   - ExternalObjectComponent, the component that keeps an imperative     *)
(*     "external object" (globe, map, plot) alive in a store while React   *)
(*     mounts, updates and unmounts the component that shows it;           *)
(*   - CesiumGlobe.updateGlobeLayers / updateGlobeDataSources, which apply *)
(*     the actions of getLayerDiff to the imperative layer stacks;         *)
(*   - TaskComponent and the jobs whose tasks it shows;                    *)
(*   - WorkspaceAPI, BackendConfigAPI and the calls of the WorkspacePanel; *)
(*   - main.ts, the main process with its preferences and its window.      *)
(***************************************************************************)
EXTENDS Integers, Sequences, FiniteSets, TLC

(***************************************************************************)
(* Values                                                                  *)
(***************************************************************************)
\* an absent HTMLElement / parent container
Null == "null"
\* the "div" rendered by the component, handed to the ref callback
Div == "div"
\* the prop externalObjectStore left out
Undefined == "undefined"
\* ids a component is given; EmptyId is the falsy id checkProps rejects
Ids == {"a", "b"}
EmptyId == ""
\* the static fallback store and one injected store
DefaultStore == "DEFAULT_EXTERNAL_OBJECT_CACHE"
InjectedStore == "s1"
StoreNames == {DefaultStore, InjectedStore}
\* the remaining props (ES), abstracted to one value
Vals == {1, 2}
\* number of external objects a run may construct
MaxObjects == 2

\* P & ES: the props of the component
Props == [id : Ids \cup {EmptyId}, externalObjectStore : {Undefined, InjectedStore}, val : Vals]
NoProps == [id |-> EmptyId, externalObjectStore |-> Undefined, val |-> 0]

\* an undefined state is <<>>, a state ES is <<props>>
UndefinedState == <<>>

VARIABLES
    comp,                \* "none": no component instance; "mounted": one instance is in the tree
    props,               \* this.props of the instance
    divId,               \* the id attribute of the rendered div (parentContainer.id)
    parentContainer,     \* this.parentContainer
    children,            \* containers that are children of the rendered div
    externalObjectStores,\* store name -> (id -> ExternalObjectRef), the ids present are the domain
    nObj,                \* number of external objects constructed so far
    containerless,       \* the subclass' newContainer returns no element
    err,                 \* "none", or the error thrown by the last handler
    owner,               \* history: object -> <<store, id>> it was constructed for
    destroyed,           \* history: objects that were destroyed
    appliedObj,          \* history: object -> nextState of the last completed update call on it
    appliedId,           \* history: store -> id -> nextState of the last completed update call for it
    regenerated,         \* history: the <<store, id>> whose entry forceRegeneration deleted
    reported,            \* history: the <<store, id>> last reported mounted, not unmounted
    trace                \* history: the calls made by the last handler, in order

bridgeVars == <<comp, props, divId, parentContainer, children, externalObjectStores, nObj,
                containerless, err, owner, destroyed, appliedObj, appliedId, regenerated, reported,
                trace>>

(***************************************************************************)
(* The state a handler works on, as one record, so that the calls of a     *)
(* handler compose in the order of the code.                               *)
(***************************************************************************)
Machine ==
    [props |-> props, divId |-> divId, parentContainer |-> parentContainer,
     children |-> children, store |-> externalObjectStores, nObj |-> nObj, err |-> err,
     owner |-> owner, destroyed |-> destroyed, appliedObj |-> appliedObj,
     appliedId |-> appliedId, regenerated |-> regenerated, reported |-> reported,
     trace |-> <<>>]

NoEv ==
    [kind |-> "", store |-> "", id |-> "", object |-> 0, inStore |-> FALSE,
     attached |-> FALSE, prev |-> <<>>, next |-> <<>>, lastObj |-> <<>>, lastId |-> <<>>,
     via |-> "", wasMounted |-> FALSE]

\* the call e is made; for externalObjectMounted and externalObjectUnmounted it is
\* noted whether the id was reported mounted, and not unmounted, before the call
Log(m, e) ==
    IF e.kind \in {"mounted", "unmounted"}
    THEN [m EXCEPT !.trace = Append(@, [e EXCEPT !.wasMounted =
                                                    <<e.store, e.id>> \in m.reported]),
                   !.reported = IF e.kind = "mounted"
                                THEN @ \cup {<<e.store, e.id>>}
                                ELSE @ \ {<<e.store, e.id>>}]
    ELSE [m EXCEPT !.trace = Append(@, e)]

\* private get externalObjectStore()
StoreOf(p) ==
    IF p.externalObjectStore = Undefined THEN DefaultStore ELSE p.externalObjectStore

\* id in this.externalObjectStore
InStore(m, id) == id \in DOMAIN m.store[StoreOf(m.props)]

\* this.externalObjectStore[id] = ref
PutRef(f, id, ref) == [x \in (DOMAIN f) \cup {id} |-> IF x = id THEN ref ELSE f[x]]

\* delete externalObjectStore[id]
DeleteRef(f, id) == [x \in (DOMAIN f) \ {id} |-> f[x]]

\* assert.ok(condition) of common/assert: throws when the condition is falsy
AssertOk(m, condition, where) ==
    IF condition THEN m
    ELSE [Log(m, [NoEv EXCEPT !.kind = "assertFail", !.via = where,
                              !.store = StoreOf(m.props)])
            EXCEPT !.err = "assert"]

\* propsToExternalObjectState: a shallow copy of the props
propsToExternalObjectState(p) == <<p>>

\* ExternalObjectComponent.checkProps
checkProps(m, p) ==
    IF p.id = EmptyId THEN [m EXCEPT !.err = "checkProps"] ELSE m

\* variant of updateExternalComponentAndSaveProps that forgets "Remember new state"
updateWithoutSavingState(m, nextProps, via) ==
    IF m.err # "none" THEN m
    ELSE LET s == StoreOf(m.props)
             id == nextProps.id
             m0 == Log(m, [NoEv EXCEPT !.kind = "enter", !.via = "update", !.store = s,
                                      !.id = id, !.inStore = (id \in DOMAIN m.store[s])])
             m1 == AssertOk(m0, id \in DOMAIN m.store[s], "update")
         IN  IF m1.err # "none" THEN m1
             ELSE LET ref == m.store[s][id]
                      nextState == propsToExternalObjectState(nextProps)
                      call == [NoEv EXCEPT !.kind = "update", !.store = s, !.id = id,
                                  !.object = ref.object, !.inStore = TRUE,
                                  !.attached = (m.parentContainer # Null
                                                 /\ (ref.container = 0
                                                      \/ ref.container \in m.children)),
                                  !.prev = ref.state, !.next = nextState,
                                  !.lastObj = m.appliedObj[ref.object],
                                  !.lastId = m.appliedId[s][id],
                                  !.via = via]
                  IN  [Log(m1, call) EXCEPT
                          !.appliedObj[ref.object] = nextState,
                          !.appliedId[s][id] = nextState]

\* updateExternalComponentAndSaveProps(nextProps)
updateExternalComponentAndSaveProps(m, nextProps, via) ==
    IF m.err # "none" THEN m
    ELSE LET s == StoreOf(m.props)
             id == nextProps.id
             m0 == Log(m, [NoEv EXCEPT !.kind = "enter", !.via = "update", !.store = s,
                                      !.id = id, !.inStore = (id \in DOMAIN m.store[s])])
             m1 == AssertOk(m0, id \in DOMAIN m.store[s], "update")
         IN  IF m1.err # "none" THEN m1
             ELSE LET ref == m.store[s][id]
                      prevState == ref.state
                      nextState == propsToExternalObjectState(nextProps)
                      call == [NoEv EXCEPT !.kind = "update", !.store = s, !.id = id,
                                  !.object = ref.object, !.inStore = TRUE,
                                  !.attached = (m.parentContainer # Null
                                                 /\ (ref.container = 0
                                                      \/ ref.container \in m.children)),
                                  !.prev = prevState, !.next = nextState,
                                  !.lastObj = m.appliedObj[ref.object],
                                  !.lastId = m.appliedId[s][id],
                                  !.via = via]
                  IN  [Log(m1, call) EXCEPT
                          !.store[s][id].state = nextState,
                          !.appliedObj[ref.object] = nextState,
                          !.appliedId[s][id] = nextState]

\* variant of mountNewExternalObject that registers the ref with the props as its state
mountNewWithStatePreset(m, pc) ==
    IF m.err # "none" THEN m
    ELSE LET s == StoreOf(m.props)
             id == m.props.id
             o == m.nObj + 1
             container == IF containerless THEN 0 ELSE o
             had == id \in DOMAIN m.store[s]
             m1 == Log(m, [NoEv EXCEPT !.kind = "newContainer", !.store = s, !.id = id,
                                      !.object = o, !.inStore = had])
             m2 == IF container # 0
                   THEN [Log(m1, [NoEv EXCEPT !.kind = "appendChild", !.store = s,
                                            !.id = id, !.object = o])
                            EXCEPT !.children = @ \cup {container}]
                   ELSE m1
             m3 == [Log(m2, [NoEv EXCEPT !.kind = "newExternalObject", !.store = s,
                                        !.id = id, !.object = o, !.inStore = had])
                      EXCEPT !.nObj = o,
                             !.owner = Append(@, <<s, id>>),
                             !.appliedObj = Append(@, UndefinedState)]
             m4 == [Log(m3, [NoEv EXCEPT !.kind = "register", !.store = s, !.id = id,
                                        !.object = o])
                      EXCEPT !.store[s] = PutRef(@, id, [object |-> o, container |-> container,
                                                         state |-> propsToExternalObjectState(m.props)])]
             m5 == [m4 EXCEPT !.parentContainer = pc]
             m6 == Log(m5, [NoEv EXCEPT !.kind = "mounted", !.store = s, !.id = id,
                                       !.object = o, !.via = "mountNew"])
         IN  updateExternalComponentAndSaveProps(m6, m6.props, "mountNew")

\* mountNewExternalObject(parentContainer)
mountNewExternalObject(m, pc) ==
    IF m.err # "none" THEN m
    ELSE LET s == StoreOf(m.props)
             id == m.props.id
             o == m.nObj + 1
             container == IF containerless THEN 0 ELSE o
             had == id \in DOMAIN m.store[s]
             m1 == Log(m, [NoEv EXCEPT !.kind = "newContainer", !.store = s, !.id = id,
                                      !.object = o, !.inStore = had])
             m2 == IF container # 0
                   THEN [Log(m1, [NoEv EXCEPT !.kind = "appendChild", !.store = s,
                                            !.id = id, !.object = o])
                            EXCEPT !.children = @ \cup {container}]
                   ELSE m1
             m3 == [Log(m2, [NoEv EXCEPT !.kind = "newExternalObject", !.store = s,
                                        !.id = id, !.object = o, !.inStore = had])
                      EXCEPT !.nObj = o,
                             !.owner = Append(@, <<s, id>>),
                             !.appliedObj = Append(@, UndefinedState)]
             m4 == [Log(m3, [NoEv EXCEPT !.kind = "register", !.store = s, !.id = id,
                                        !.object = o])
                      EXCEPT !.store[s] = PutRef(@, id, [object |-> o, container |-> container,
                                                         state |-> UndefinedState])]
             m5 == [m4 EXCEPT !.parentContainer = pc]
             m6 == Log(m5, [NoEv EXCEPT !.kind = "mounted", !.store = s, !.id = id,
                                       !.object = o, !.via = "mountNew"])
         IN  updateExternalComponentAndSaveProps(m6, m6.props, "mountNew")

\* mountExistingExternalObject(parentContainer)
mountExistingExternalObject(m, pc) ==
    IF m.err # "none" THEN m
    ELSE LET s == StoreOf(m.props)
             id == m.props.id
             m1 == AssertOk(m, id \in DOMAIN m.store[s], "mountExisting")
         IN  IF m1.err # "none" THEN m1
             ELSE LET ref == m.store[s][id]
                      container == ref.container
                      m2 == IF container # 0 /\ container \notin m.children
                            THEN [Log(m, [NoEv EXCEPT !.kind = "appendChild", !.store = s,
                                                     !.id = id, !.object = ref.object])
                                    EXCEPT !.children = @ \cup {container}]
                            ELSE m
                      m3 == [m2 EXCEPT !.parentContainer = pc]
                      m4 == Log(m3, [NoEv EXCEPT !.kind = "mounted", !.store = s, !.id = id,
                                                !.object = ref.object,
                                                !.via = "mountExisting"])
                  IN  updateExternalComponentAndSaveProps(m4, m4.props, "mountExisting")

\* variant of unmountExternalObject that also deletes the entry from the store
unmountAndDelete(m, pc) ==
    IF m.err # "none" THEN m
    ELSE LET s == StoreOf(m.props)
             id == m.divId
             m0 == Log(m, [NoEv EXCEPT !.kind = "enter", !.via = "unmount", !.store = s,
                                      !.id = id, !.inStore = (id \in DOMAIN m.store[s])])
             m1 == AssertOk(m0, id \in DOMAIN m.store[s], "unmount")
         IN  IF m1.err # "none" THEN m1
             ELSE LET ref == m.store[s][id]
                      m2 == IF ref.container # 0 /\ ref.container \in m.children
                            THEN [Log(m1, [NoEv EXCEPT !.kind = "removeChild", !.store = s,
                                                      !.id = id, !.object = ref.object])
                                    EXCEPT !.children = @ \ {ref.container}]
                            ELSE m1
                      m3 == [m2 EXCEPT !.parentContainer = Null,
                                       !.store[s] = DeleteRef(@, id)]
                  IN  Log(m3, [NoEv EXCEPT !.kind = "unmounted", !.store = s, !.id = id,
                                          !.object = ref.object])

\* variant of unmountExternalObject that leaves the container in the parent container
unmountWithoutDetach(m, pc) ==
    IF m.err # "none" THEN m
    ELSE LET s == StoreOf(m.props)
             id == m.divId
             m0 == Log(m, [NoEv EXCEPT !.kind = "enter", !.via = "unmount", !.store = s,
                                      !.id = id, !.inStore = (id \in DOMAIN m.store[s])])
             m1 == AssertOk(m0, id \in DOMAIN m.store[s], "unmount")
         IN  IF m1.err # "none" THEN m1
             ELSE LET ref == m.store[s][id]
                      m3 == [m1 EXCEPT !.parentContainer = Null]
                  IN  Log(m3, [NoEv EXCEPT !.kind = "unmounted", !.store = s, !.id = id,
                                          !.object = ref.object])

\* variant of unmountExternalObject that returns silently when the store has no entry
unmountIgnoringMissingEntry(m, pc) ==
    IF m.err # "none" THEN m
    ELSE LET s == StoreOf(m.props)
             id == m.divId
             m1 == Log(m, [NoEv EXCEPT !.kind = "enter", !.via = "unmount", !.store = s,
                                      !.id = id, !.inStore = (id \in DOMAIN m.store[s])])
         IN  IF id \notin DOMAIN m.store[s] THEN [m1 EXCEPT !.parentContainer = Null]
             ELSE LET ref == m.store[s][id]
                      m2 == IF ref.container # 0 /\ ref.container \in m.children
                            THEN [Log(m1, [NoEv EXCEPT !.kind = "removeChild", !.store = s,
                                                      !.id = id, !.object = ref.object])
                                    EXCEPT !.children = @ \ {ref.container}]
                            ELSE m1
                      m3 == [m2 EXCEPT !.parentContainer = Null]
                  IN  Log(m3, [NoEv EXCEPT !.kind = "unmounted", !.store = s, !.id = id,
                                          !.object = ref.object])

\* unmountExternalObject(parentContainer): the entry is looked up by parentContainer.id
unmountExternalObject(m, pc) ==
    IF m.err # "none" THEN m
    ELSE LET s == StoreOf(m.props)
             id == m.divId
             m0 == Log(m, [NoEv EXCEPT !.kind = "enter", !.via = "unmount", !.store = s,
                                      !.id = id, !.inStore = (id \in DOMAIN m.store[s])])
             m1 == AssertOk(m0, id \in DOMAIN m.store[s], "unmount")
         IN  IF m1.err # "none" THEN m1
             ELSE LET ref == m.store[s][id]
                      container == ref.container
                      m2 == IF container # 0 /\ container \in m.children
                            THEN [Log(m1, [NoEv EXCEPT !.kind = "removeChild", !.store = s,
                                                     !.id = id, !.object = ref.object])
                                    EXCEPT !.children = @ \ {container}]
                            ELSE m1
                      m3 == [m2 EXCEPT !.parentContainer = Null]
                  IN  Log(m3, [NoEv EXCEPT !.kind = "unmounted", !.store = s, !.id = id,
                                          !.object = ref.object])

\* variant of remountExternalObject that never looks the id up in the store
remountAlwaysNew(m, pc) ==
    IF m.err # "none" THEN m
    ELSE IF pc # Null
         THEN mountNewExternalObject(m, pc)
         ELSE IF m.parentContainer # Null
              THEN unmountExternalObject(m, m.parentContainer)
              ELSE m

\* remountExternalObject(parentContainer)
remountExternalObject(m, pc) ==
    IF m.err # "none" THEN m
    ELSE IF pc # Null
         THEN IF InStore(m, m.props.id)
              THEN mountExistingExternalObject(m, pc)
              ELSE mountNewExternalObject(m, pc)
         ELSE IF m.parentContainer # Null
              THEN unmountExternalObject(m, m.parentContainer)
              ELSE m

\* a bug: the store is asked for the id of this.props, not of nextProps
componentWillUpdateCurrentId(m, nextProps) ==
    LET m1 == checkProps(m, nextProps)
    IN  IF m1.err # "none" THEN m1
        ELSE IF InStore(m1, m1.props.id)
             THEN updateExternalComponentAndSaveProps(m1, nextProps, "willUpdate")
             ELSE IF m1.parentContainer # Null
                  THEN remountExternalObject(m1, m1.parentContainer)
                  ELSE m1

\* componentWillUpdate(nextProps); this.props are still the previous props
componentWillUpdate(m, nextProps) ==
    LET m1 == checkProps(m, nextProps)
    IN  IF m1.err # "none" THEN m1
        ELSE IF InStore(m1, nextProps.id)
             THEN updateExternalComponentAndSaveProps(m1, nextProps, "willUpdate")
             ELSE IF m1.parentContainer # Null
                  THEN remountExternalObject(
                           Log(m1, [NoEv EXCEPT !.kind = "noEntry", !.via = "remount",
                                               !.store = StoreOf(m1.props),
                                               !.id = nextProps.id]),
                           m1.parentContainer)
                  ELSE Log(m1, [NoEv EXCEPT !.kind = "noEntry", !.via = "skip",
                                           !.store = StoreOf(m1.props), !.id = nextProps.id])

\* a bug: the entry stays in the store, so that its object is mounted again
forceRegenerationKeepingEntry(m) ==
    LET s == StoreOf(m.props)
        id == m.props.id
    IN  IF id \in DOMAIN m.store[s]
        THEN LET ref == m.store[s][id]
                 m2 == IF m.parentContainer # Null /\ ref.container # 0
                       THEN IF ref.container \in m.children
                            THEN [Log(m, [NoEv EXCEPT !.kind = "removeChild", !.store = s,
                                                     !.id = id, !.object = ref.object])
                                    EXCEPT !.children = @ \ {ref.container}]
                            ELSE [m EXCEPT !.err = "NotFoundError"]
                       ELSE m
             IN  remountExternalObject(m2, m2.parentContainer)
        ELSE m

\* forceRegeneration()
forceRegeneration(m) ==
    LET s == StoreOf(m.props)
        id == m.props.id
    IN  IF id \in DOMAIN m.store[s]
        THEN LET ref == m.store[s][id]
                 m1 == [Log(m, [NoEv EXCEPT !.kind = "delete", !.store = s, !.id = id,
                                           !.object = ref.object])
                          EXCEPT !.store[s] = DeleteRef(@, id),
                                 !.regenerated = @ \cup {<<s, id>>}]
                 m2 == IF m1.parentContainer # Null /\ ref.container # 0
                       THEN IF ref.container \in m1.children
                            THEN [Log(m1, [NoEv EXCEPT !.kind = "removeChild", !.store = s,
                                                      !.id = id, !.object = ref.object])
                                    EXCEPT !.children = @ \ {ref.container}]
                            ELSE [m1 EXCEPT !.err = "NotFoundError"]
                       ELSE m1
             IN  remountExternalObject(m2, m2.parentContainer)
        ELSE m

\* the CesiumGlobe that is modelled further down
VARIABLES
    globePc,        \* "props": next props received; "done": updateGlobe has returned
    lastStateLayers,\* lastState.layers and lastState.dataSources
    propsLayers,    \* props.layers and props.dataSources
    layerActions,   \* the actions getLayerDiff returned
    imageryLayers,  \* viewer.imageryLayers, the base layer at index 0
    dataSources,    \* viewer.dataSources
    globeErr,       \* "none", or the error thrown in updateGlobe
    globe,          \* <<>> or <<the CesiumGlobe instance in the tree: props, lastStateMap>>
    viewers,        \* the permanent objects: id -> <<>> or <<the CesiumViewer of the id>>
    nInstances,     \* number of CesiumGlobe instances constructed so far
    applied,        \* history: id -> the layers last applied to the viewer of the id
    lastDiff        \* history: <<>> or <<the id, the lists and the viewer of the last diff>>

globeVars == <<globePc, lastStateLayers, propsLayers, layerActions, imageryLayers, dataSources,
               globeErr, globe, viewers, nInstances, applied, lastDiff>>

\* the jobs of the remote job layer and their tasks, modelled further down
VARIABLES
    tasks,          \* job id -> <<>> (no task) or <<TaskState>>
    removedJobs,    \* the jobs whose task onRemoveJob took from the task list
    backend,        \* job id -> what the backend has sent for it so far
    channel,        \* job id -> the messages of the job in flight to the client, in order
    delivered,      \* history: job id -> the callbacks made for the job, in order
    cancelRequested,\* history: the jobs whose cancel button was pressed
    cancelSent      \* the jobs whose cancellation request reached the backend

jobVars == <<tasks, removedJobs, backend, channel, delivered, cancelRequested, cancelSent>>

\* no job was ever issued
JobIdle ==
    /\ tasks = <<>>
    /\ removedJobs = {}
    /\ backend = <<>>
    /\ channel = <<>>
    /\ delivered = <<>>
    /\ cancelRequested = {}
    /\ cancelSent = {}

\* the WorkspacePanel, the calls made through the web API and the state of the
\* application they end in, modelled further down
VARIABLES
    panel,          \* <<>> (not mounted) or <<the mounted WorkspacePanel>>
    calls,          \* history: the remote calls issued so far, in order
    pending,        \* the indices in calls of the calls without an outcome yet
    workspace,      \* state.data.workspace: <<>> or <<WorkspaceState>>
    results,        \* history: call index -> <<>> or <<what the promise resolved with>>
    failures,       \* history: the indices of the calls that failed, in order
    recorded,       \* the indices of the failed calls that a state update records
    console         \* the number of errors written with console.error

apiVars == <<panel, calls, pending, workspace, results, failures, recorded, console>>

\* no panel and no call
ApiIdle ==
    /\ panel = <<>>
    /\ calls = <<>>
    /\ pending = {}
    /\ workspace = <<>>
    /\ results = <<>>
    /\ failures = <<>>
    /\ recorded = {}
    /\ console = 0

\* the main process of the application (main.ts), modelled further down
VARIABLES
    argv,           \* process.argv.slice(1)
    platform,       \* process.platform
    appDataDir,     \* what is at getAppDataDir(): "missing", "dir" or "file"
    files,          \* path -> <<>> (no such file) or <<the data stored in the file>>
    app,            \* "off", "initialised" (init() has run), "ready" or "quit"
    _prefs,         \* the data of the Config _prefs
    _config,        \* the data of the Config _config
    _mainWindow,    \* "undefined", "null" or "window": the reference to the main window
    win,            \* <<>> or <<the BrowserWindow: its bounds, its dev tools, its state>>
    mainErr         \* "none", or the error thrown by the last handler

mainVars == <<argv, platform, appDataDir, files, app, _prefs, _config, _mainWindow, win,
              mainErr>>

\* the application is not started
MainIdle ==
    /\ argv = <<>>
    /\ platform = "linux"
    /\ appDataDir = "dir"
    /\ files = <<>>
    /\ app = "off"
    /\ _prefs = <<>>
    /\ _config = <<>>
    /\ _mainWindow = "undefined"
    /\ win = <<>>
    /\ mainErr = "none"

\* the state outside the external-object bridge and the globe
appVars == <<jobVars, apiVars, mainVars>>

AppIdle == JobIdle /\ ApiIdle /\ MainIdle

(***************************************************************************)
(* Actions: what React and the clients of the component do to it.          *)
(***************************************************************************)
\* the variables a handler leaves as the record m says
Commit(m) ==
    /\ props' = m.props
    /\ divId' = m.divId
    /\ parentContainer' = m.parentContainer
    /\ children' = m.children
    /\ externalObjectStores' = m.store
    /\ nObj' = m.nObj
    /\ err' = m.err
    /\ owner' = m.owner
    /\ destroyed' = m.destroyed
    /\ appliedObj' = m.appliedObj
    /\ appliedId' = m.appliedId
    /\ regenerated' = m.regenerated
    /\ reported' = m.reported
    /\ trace' = m.trace

\* React mounts a new instance: constructor, render, ref callback with the div
ReactMountOf(p) ==
    LET m0 == [Machine EXCEPT !.props = p, !.divId = p.id, !.parentContainer = Null,
                              !.children = {}]
        m1 == checkProps(m0, p)
    IN  remountExternalObject(m1, Div)

ReactMount(p) ==
    /\ comp = "none"
    /\ err = "none"
    /\ LET m == ReactMountOf(p)
       IN  /\ m.nObj <= MaxObjects
           /\ comp' = IF m.err = "none" THEN "mounted" ELSE "none"
           /\ Commit(m)
    /\ UNCHANGED <<containerless, globeVars, appVars>>

\* React updates the instance with new props: componentWillUpdate, render, the
\* previous ref callback with null, the DOM update of the div, the new ref callback
ReactUpdateOf(m, nextProps) ==
    LET m1 == componentWillUpdate(m, nextProps)
        m2 == IF m1.err # "none" THEN m1 ELSE [m1 EXCEPT !.props = nextProps]
        m3 == remountExternalObject(m2, Null)
        m4 == IF m3.err # "none" THEN m3 ELSE [m3 EXCEPT !.divId = nextProps.id]
    IN  remountExternalObject(m4, Div)

ReactUpdate(nextProps) ==
    /\ comp = "mounted"
    /\ err = "none"
    /\ nextProps # props
    /\ LET m == ReactUpdateOf(Machine, nextProps)
       IN  /\ m.nObj <= MaxObjects
           /\ Commit(m)
    /\ UNCHANGED <<comp, containerless, globeVars, appVars>>

\* React unmounts the instance: the ref callback with null; the div is dropped
ReactUnmountOf(m) == remountExternalObject(m, Null)

ReactUnmount ==
    /\ comp = "mounted"
    /\ err = "none"
    /\ LET m == ReactUnmountOf(Machine)
       IN  IF m.err = "none"
           THEN /\ comp' = "none"
                /\ Commit([m EXCEPT !.props = NoProps, !.divId = EmptyId])
           ELSE /\ comp' = comp
                /\ Commit(m)
    /\ UNCHANGED <<containerless, globeVars, appVars>>

\* a client calls forceRegeneration() on the instance
ForceRegeneration ==
    /\ comp = "mounted"
    /\ err = "none"
    /\ LET m == forceRegeneration(Machine)
       IN  /\ m.nObj <= MaxObjects
           /\ Commit(m)
    /\ UNCHANGED <<comp, containerless, globeVars, appVars>>

\* a client calls forceRegeneration() on an instance with the props p that is in no
\* tree: it was constructed and has no parent container (not yet, or no longer)
ForceRegenerationDetached(p) ==
    /\ comp = "none"
    /\ err = "none"
    /\ p.id # EmptyId
    /\ LET m == forceRegeneration([Machine EXCEPT !.props = p, !.divId = EmptyId,
                                                  !.parentContainer = Null])
       IN  Commit([m EXCEPT !.props = NoProps])
    /\ UNCHANGED <<comp, containerless, globeVars, appVars>>

BridgeInit ==
    /\ comp = "none"
    /\ props = NoProps
    /\ divId = EmptyId
    /\ parentContainer = Null
    /\ children = {}
    /\ externalObjectStores = [s \in StoreNames |-> <<>>]
    /\ nObj = 0
    /\ containerless \in BOOLEAN
    /\ err = "none"
    /\ owner = <<>>
    /\ destroyed = {}
    /\ appliedObj = <<>>
    /\ appliedId = [s \in StoreNames |-> [i \in Ids |-> UndefinedState]]
    /\ regenerated = {}
    /\ reported = {}
    /\ trace = <<>>


(***************************************************************************)
(* CesiumGlobe: the layer lists of the props, the actions of getLayerDiff  *)
(* and the imperative stacks of the Cesium viewer they are applied to.     *)
(***************************************************************************)
\* number of layer ids, and the longest layer list
MaxLayers == 3
LayerIds == 1..MaxLayers

\* what a descriptor carries besides its id: the url of its provider options and
\* the displayed properties (visible stands for name, opacity, ... too)
Variants == {[url |-> 1, visible |-> TRUE], [url |-> 1, visible |-> FALSE],
             [url |-> 2, visible |-> TRUE]}
OldVariants == {[url |-> 1, visible |-> TRUE]}

\* LayerDescriptor / DataSourceDescriptor
Descriptor(id, v) == [id |-> id, url |-> v.url, visible |-> v.visible]
NoLayer == [id |-> 0, url |-> 0, visible |-> FALSE]

\* the sequences of pairwise different layer ids
IdSeqs ==
    {q \in UNION {[1..k -> LayerIds] : k \in 0..MaxLayers} :
        \A i, j \in DOMAIN q : i # j => q[i] # q[j]}

\* the lists of descriptors with unique ids and variants from vs
LayerLists(vs) ==
    UNION {{[i \in DOMAIN q |-> Descriptor(q[i], f[i])] : f \in [DOMAIN q -> vs]} :
             q \in IdSeqs}

RemoveAt(seq, pos) == SubSeq(seq, 1, pos - 1) \o SubSeq(seq, pos + 1, Len(seq))
InsertAt(seq, pos, x) == SubSeq(seq, 1, pos - 1) \o <<x>> \o SubSeq(seq, pos, Len(seq))
LayerIdsOf(layers) == {layers[i].id : i \in DOMAIN layers}
\* layers.findIndex(l => l.id === id), as a position (index + 1)
PosOfId(layers, id) == CHOOSE i \in DOMAIN layers : layers[i].id = id

NoAction ==
    [type |-> "", index |-> 0, numSteps |-> 0, newLayer |-> NoLayer, oldLayer |-> NoLayer]

\* getLayerDiff, first pass: a REMOVE for every old layer whose id is not in the new
\* list, its index taken in the list as it is after the removals before it
RECURSIVE DiffRemove(_, _, _, _)
DiffRemove(oldLayers, newLayers, k, d) ==
    IF k > Len(oldLayers) THEN d
    ELSE IF oldLayers[k].id \in LayerIdsOf(newLayers)
         THEN DiffRemove(oldLayers, newLayers, k + 1, d)
         ELSE LET pos == PosOfId(d.current, oldLayers[k].id)
              IN  DiffRemove(oldLayers, newLayers, k + 1,
                      [current |-> RemoveAt(d.current, pos),
                       actions |-> Append(d.actions,
                           [NoAction EXCEPT !.type = "REMOVE", !.index = pos - 1,
                                            !.oldLayer = oldLayers[k]])])

\* second pass: an ADD for every new layer whose id is not in the old list, at its
\* index in the new list
RECURSIVE DiffAdd(_, _, _, _)
DiffAdd(oldLayers, newLayers, k, d) ==
    IF k > Len(newLayers) THEN d
    ELSE IF newLayers[k].id \in LayerIdsOf(oldLayers)
         THEN DiffAdd(oldLayers, newLayers, k + 1, d)
         ELSE DiffAdd(oldLayers, newLayers, k + 1,
                  [current |-> InsertAt(d.current, k, newLayers[k]),
                   actions |-> Append(d.actions,
                       [NoAction EXCEPT !.type = "ADD", !.index = k - 1,
                                        !.newLayer = newLayers[k]])])

\* third pass: a MOVE_DOWN for every layer that is numSteps > 0 positions above its
\* index in the new list; index is where the layer is when the action is applied
RECURSIVE DiffMove(_, _, _)
DiffMove(newLayers, k, d) ==
    IF k > Len(newLayers) THEN d
    ELSE LET pos == PosOfId(d.current, newLayers[k].id)
         IN  IF pos > k
             THEN DiffMove(newLayers, k + 1,
                      [current |-> InsertAt(RemoveAt(d.current, pos), k, d.current[pos]),
                       actions |-> Append(d.actions,
                           [NoAction EXCEPT !.type = "MOVE_DOWN", !.index = pos - 1,
                                            !.numSteps = pos - k])])
             ELSE DiffMove(newLayers, k + 1, d)

\* fourth pass: an UPDATE for every layer that is in both lists with a different
\* descriptor, at its index in the new list
RECURSIVE DiffUpdate(_, _, _, _)
DiffUpdate(oldLayers, newLayers, k, d) ==
    IF k > Len(newLayers) THEN d
    ELSE IF newLayers[k].id \in LayerIdsOf(oldLayers)
            /\ oldLayers[PosOfId(oldLayers, newLayers[k].id)] # newLayers[k]
         THEN DiffUpdate(oldLayers, newLayers, k + 1,
                  [d EXCEPT !.actions = Append(@,
                       [NoAction EXCEPT !.type = "UPDATE", !.index = k - 1,
                            !.oldLayer = oldLayers[PosOfId(oldLayers, newLayers[k].id)],
                            !.newLayer = newLayers[k]])])
         ELSE DiffUpdate(oldLayers, newLayers, k + 1, d)

\* getLayerDiff(oldLayers, newLayers) of common/layer-diff
getLayerDiff(oldLayers, newLayers) ==
    LET d0 == [current |-> oldLayers, actions |-> <<>>]
        d1 == DiffRemove(oldLayers, newLayers, 1, d0)
        d2 == DiffAdd(oldLayers, newLayers, 1, d1)
        d3 == DiffMove(newLayers, 1, d2)
    IN  DiffUpdate(oldLayers, newLayers, 1, d3).actions

\* the imagery layer the viewer is created with (createPermanentObject)
BaseLayer == [id |-> 0, url |-> 0, show |-> TRUE]

\* ImageryLayerCollection.get(index) / DataSourceCollection.get(index): undefined
\* when there is nothing at the index
HasIndex(stack, index) == index >= 0 /\ index < Len(stack)

\* ImageryLayerCollection.lower(layer): swaps the layer with the one below it
lower(stack, pos) ==
    IF pos > 1
    THEN [stack EXCEPT ![pos - 1] = stack[pos], ![pos] = stack[pos - 1]]
    ELSE stack

RECURSIVE lowerTimes(_, _, _)
lowerTimes(stack, pos, n) ==
    IF n = 0 THEN stack ELSE lowerTimes(lower(stack, pos), IF pos > 1 THEN pos - 1 ELSE pos, n - 1)

\* a bug: the new imagery layer goes one below layerIndex
addLayerBelowIndex(stack, descriptor, layerIndex) ==
    InsertAt(stack, layerIndex, [id |-> descriptor.id, url |-> descriptor.url,
                                 show |-> TRUE])

\* addLayer(layerDescriptor, layerIndex): a new imagery layer of the descriptor's
\* provider, inserted at layerIndex; it shows until setLayerProps
addLayer(stack, descriptor, layerIndex) ==
    InsertAt(stack, layerIndex + 1, [id |-> descriptor.id, url |-> descriptor.url,
                                     show |-> TRUE])

\* setLayerProps(imageryLayer, layerDescriptor), on the layer at layerIndex
setLayerProps(stack, layerIndex, descriptor) ==
    [stack EXCEPT ![layerIndex + 1].show = descriptor.visible]

\* cesiumIndex is +1 because of its base layer at cesiumIndex=0
cesiumIndexIgnoringBase(action) == action.index

cesiumIndexOf(action) == action.index + 1

\* one iteration of the loop of updateGlobeLayers; g is [stack, err]
applyLayerAction(g, action) ==
    LET cesiumIndex == cesiumIndexOf(action)
        stack == g.stack
    IN  IF g.err # "none" THEN g
        ELSE CASE action.type = "ADD" ->
                    IF cesiumIndex > Len(stack)
                    THEN [g EXCEPT !.err = "DeveloperError"]
                    ELSE [g EXCEPT !.stack = setLayerProps(
                             addLayer(stack, action.newLayer, cesiumIndex),
                             cesiumIndex, action.newLayer)]
               [] action.type = "REMOVE" ->
                    IF ~HasIndex(stack, cesiumIndex) THEN g
                    ELSE [g EXCEPT !.stack = RemoveAt(stack, cesiumIndex + 1)]
               [] action.type = "UPDATE" ->
                    IF ~HasIndex(stack, cesiumIndex) THEN g
                    ELSE IF action.oldLayer.url # action.newLayer.url
                         THEN [g EXCEPT !.stack = setLayerProps(
                                  addLayer(RemoveAt(stack, cesiumIndex + 1),
                                           action.newLayer, cesiumIndex),
                                  cesiumIndex, action.newLayer)]
                         ELSE [g EXCEPT !.stack = setLayerProps(stack, cesiumIndex,
                                                                action.newLayer)]
               [] action.type = "MOVE_DOWN" ->
                    IF ~HasIndex(stack, cesiumIndex) THEN g
                    ELSE [g EXCEPT !.stack = lowerTimes(stack, cesiumIndex + 1,
                                                        action.numSteps)]
               [] OTHER -> g

RECURSIVE applyLayerActions(_, _, _)
applyLayerActions(g, actions, k) ==
    IF k > Len(actions) THEN g
    ELSE applyLayerActions(applyLayerAction(g, actions[k]), actions, k + 1)

\* updateGlobeLayers(currentLayers, nextLayers)
updateGlobeLayers(g, currentLayers, nextLayers) ==
    applyLayerActions(g, getLayerDiff(currentLayers, nextLayers), 1)

\* insertDataSource(dataSource, index): the data sources from index on are taken out,
\* dataSource is added, and the others are added again
insertDataSourceTwice(stack, dataSource, index) ==
    SubSeq(stack, 1, index) \o <<dataSource>> \o SubSeq(stack, index + 1, Len(stack))

insertDataSource(stack, dataSource, index) ==
    LET tail == SubSeq(stack, index + 1, Len(stack))
    IN  SubSeq(stack, 1, index) \o <<dataSource>>
            \o SelectSeq(tail, LAMBDA ds : ds # dataSource)

\* addDataSource(layerDescriptor, layerIndex), then setDataSourceProps
addDataSource(stack, descriptor, layerIndex) ==
    insertDataSource(stack, [id |-> descriptor.id, url |-> descriptor.url,
                             show |-> descriptor.visible], layerIndex)

\* the REMOVE case of updateGlobeDataSources with the index of the imagery layers
removeDataSourceAboveIndex(g, action) ==
    IF ~HasIndex(g.stack, action.index + 1) THEN [g EXCEPT !.err = "assert"]
    ELSE [g EXCEPT !.stack = RemoveAt(g.stack, action.index + 2)]

\* the REMOVE case of updateGlobeDataSources
removeDataSource(g, action) ==
    IF ~HasIndex(g.stack, action.index) THEN [g EXCEPT !.err = "assert"]
    ELSE [g EXCEPT !.stack = RemoveAt(g.stack, action.index + 1)]

\* one iteration of the loop of updateGlobeDataSources; g is [stack, err]
applyDataSourceAction(g, action) ==
    LET index == action.index
        stack == g.stack
    IN  IF g.err # "none" THEN g
        ELSE CASE action.type = "ADD" ->
                    [g EXCEPT !.stack = addDataSource(stack, action.newLayer, index)]
               [] action.type = "REMOVE" -> removeDataSource(g, action)
               [] action.type = "UPDATE" ->
                    IF ~HasIndex(stack, index) THEN [g EXCEPT !.err = "assert"]
                    ELSE IF action.oldLayer.url # action.newLayer.url
                         THEN [g EXCEPT !.stack = addDataSource(RemoveAt(stack, index + 1),
                                                                action.newLayer, index)]
                         ELSE [g EXCEPT !.stack[index + 1].show = action.newLayer.visible]
               [] action.type = "MOVE_DOWN" ->
                    IF ~HasIndex(stack, index) THEN [g EXCEPT !.err = "assert"]
                    ELSE [g EXCEPT !.stack = insertDataSource(stack, stack[index + 1],
                                                              index - action.numSteps)]
               [] OTHER -> g

RECURSIVE applyDataSourceActions(_, _, _)
applyDataSourceActions(g, actions, k) ==
    IF k > Len(actions) THEN g
    ELSE applyDataSourceActions(applyDataSourceAction(g, actions[k]), actions, k + 1)

\* updateGlobeDataSources(currentLayers, nextLayers)
updateGlobeDataSources(g, currentLayers, nextLayers) ==
    applyDataSourceActions(g, getLayerDiff(currentLayers, nextLayers), 1)

\* the imagery layers (above the base layer) and the data sources that show a list
ImageryFor(layers) ==
    [i \in DOMAIN layers |->
        [id |-> layers[i].id, url |-> layers[i].url, show |-> layers[i].visible]]

\* updateGlobe(props): the layers, then the data sources, of the next props
UpdateGlobe ==
    /\ globePc = "props"
    /\ LET gl == updateGlobeLayers([stack |-> imageryLayers, err |-> "none"],
                                   lastStateLayers, propsLayers)
           gd == updateGlobeDataSources([stack |-> dataSources, err |-> gl.err],
                                        lastStateLayers, propsLayers)
       IN  /\ imageryLayers' = gl.stack
           /\ dataSources' = gd.stack
           /\ globeErr' = gd.err
    /\ layerActions' = getLayerDiff(lastStateLayers, propsLayers)
    /\ globePc' = "done"
    /\ UNCHANGED <<lastStateLayers, propsLayers, globe, viewers, nInstances, applied, lastDiff,
                   bridgeVars, appVars>>

\* the lists whose ids ascend
Ascending(lists) ==
    {l \in lists : \A i, j \in DOMAIN l : i < j => l[i].id < l[j].id}

\* no CesiumGlobe instance was ever constructed
NoInstance ==
    /\ globe = <<>>
    /\ viewers = [id \in Ids |-> <<>>]
    /\ nInstances = 0
    /\ applied = [id \in Ids |-> <<>>]
    /\ lastDiff = <<>>

\* a viewer that shows the last layers, and next props with any layers. The code
\* compares ids and descriptors for equality only, so the last layers are named in
\* ascending order and carry the first variant; the next layers are any list.
GlobeInit ==
    /\ globePc = "props"
    /\ lastStateLayers \in Ascending(LayerLists(OldVariants))
    /\ propsLayers \in LayerLists(Variants)
    /\ layerActions = <<>>
    /\ imageryLayers = <<BaseLayer>> \o ImageryFor(lastStateLayers)
    /\ dataSources = ImageryFor(lastStateLayers)
    /\ globeErr = "none"
    /\ NoInstance

\* no globe
GlobeIdle ==
    /\ globePc = "done"
    /\ lastStateLayers = <<>>
    /\ propsLayers = <<>>
    /\ layerActions = <<>>
    /\ imageryLayers = <<BaseLayer>>
    /\ dataSources = <<>>
    /\ globeErr = "none"
    /\ NoInstance

vars == <<bridgeVars, globeVars, appVars>>

Init == BridgeInit /\ GlobeIdle /\ AppIdle

Next ==
    \/ \E p \in Props : ReactMount(p)
    \/ \E p \in Props : ReactUpdate(p)
    \/ ReactUnmount
    \/ ForceRegeneration

Spec == Init /\ [][Next]_vars

\* the component with the clients that call forceRegeneration() on an instance that
\* is in no tree
InitRegen == Init /\ ~containerless

NextRegen ==
    \/ Next
    \/ \E p \in Props : ForceRegenerationDetached(p)

SpecRegen == InitRegen /\ [][NextRegen]_vars

\* the layer diff and its application, for every pair of layer lists
DiffInit == BridgeInit /\ ~containerless /\ GlobeInit /\ AppIdle

DiffNext == UpdateGlobe

SpecDiff == DiffInit /\ [][DiffNext]_vars

(***************************************************************************)
(* CesiumGlobe as a component: instances come and go, the viewer of an id  *)
(* is a permanent object that survives them.                               *)
(***************************************************************************)
\* number of CesiumGlobe instances a run may construct
MaxInstances == 2

\* the layer lists the props of a globe carry: layers and data sources of the first
\* variant, over all layer ids but the last
GlobeLayerLists ==
    {l \in LayerLists(OldVariants) : \A i \in DOMAIN l : l[i].id < MaxLayers}

\* ICesiumGlobeProps: layers stands for props.layers and props.dataSources
GlobeProps(id, layers) == [id |-> id, layers |-> layers]

\* the variables of the layer diff that the component leaves alone
diffVars == <<globePc, lastStateLayers, propsLayers, layerActions, imageryLayers, dataSources>>

\* the state a handler of the globe works on, this being the instance
Globe(this) ==
    [this |-> this, viewers |-> viewers, applied |-> applied, lastDiff |-> lastDiff,
     err |-> globeErr]

\* constructor(props): this.lastStateMap = {}
CesiumGlobe(p) == [props |-> p, lastStateMap |-> [id \in Ids |-> UndefinedState]]

\* createPermanentObject(): a viewer with the base imagery layer and no data source
createPermanentObject == [imageryLayers |-> <<BaseLayer>>, dataSources |-> <<>>]

\* saveCurrentState()
saveCurrentState(g) ==
    LET currentId == g.this.props.id
        currentLayers == g.this.props.layers
    IN  [g EXCEPT !.this.lastStateMap[currentId] = <<currentLayers>>]

\* updateGlobe(props), on this.viewer
updateGlobe(g, p) ==
    LET nextId == p.id
        nextLayers == p.layers
        lastState == g.this.lastStateMap[nextId]
        lastLayers == IF lastState # UndefinedState THEN lastState[1] ELSE <<>>
        viewer == g.viewers[g.this.props.id][1]
        gl == updateGlobeLayers([stack |-> viewer.imageryLayers, err |-> "none"],
                                lastLayers, nextLayers)
        gd == updateGlobeDataSources([stack |-> viewer.dataSources, err |-> gl.err],
                                     lastLayers, nextLayers)
    IN  [g EXCEPT !.viewers[g.this.props.id] =
                      <<[imageryLayers |-> gl.stack, dataSources |-> gd.stack]>>,
                  !.err = gd.err,
                  !.applied[g.this.props.id] = IF gd.err = "none" THEN nextLayers ELSE @,
                  !.lastDiff = <<[id |-> nextId, lastLayers |-> lastLayers,
                                  nextLayers |-> nextLayers,
                                  applied |-> g.applied[g.this.props.id]]>>]

\* componentWillReceiveProps(nextProps)
componentWillReceiveProps(g, nextProps) ==
    LET g1 == saveCurrentState(g)
    IN  IF g1.viewers[g1.this.props.id] # <<>> THEN updateGlobe(g1, nextProps) ELSE g1

\* permanentObjectMounted(viewer)
permanentObjectMounted(g) == updateGlobe(g, g.this.props)

\* permanentObjectUnmounted(viewer)
permanentObjectUnmounted(g) == saveCurrentState(g)

\* PermanentComponent mounting its permanent object: the viewer stored for the id is
\* used again, and created when there is none
mountPermanentObject(g) ==
    LET id == g.this.props.id
        g1 == IF g.viewers[id] = <<>>
              THEN [g EXCEPT !.viewers[id] = <<createPermanentObject>>]
              ELSE g
    IN  permanentObjectMounted(g1)

\* the variables a handler of the globe leaves as the record g says
SetGlobe(g) ==
    /\ viewers' = g.viewers
    /\ applied' = g.applied
    /\ lastDiff' = g.lastDiff
    /\ globeErr' = g.err

\* React mounts a new CesiumGlobe with the props p
MountGlobe(p) ==
    /\ globe = <<>>
    /\ globeErr = "none"
    /\ nInstances < MaxInstances
    /\ nInstances' = nInstances + 1
    /\ LET g == mountPermanentObject(Globe(CesiumGlobe(p)))
       IN  /\ globe' = <<g.this>>
           /\ SetGlobe(g)
    /\ UNCHANGED <<diffVars, bridgeVars, appVars>>

\* the mounted CesiumGlobe receives props with other layers
ReceiveProps(layers) ==
    /\ globe # <<>>
    /\ globeErr = "none"
    /\ layers # globe[1].props.layers
    /\ LET nextProps == GlobeProps(globe[1].props.id, layers)
           g == componentWillReceiveProps(Globe(globe[1]), nextProps)
       IN  /\ globe' = <<[g.this EXCEPT !.props = nextProps]>>
           /\ SetGlobe(g)
    /\ UNCHANGED <<nInstances, diffVars, bridgeVars, appVars>>

\* React unmounts the CesiumGlobe; its viewer stays
UnmountGlobe ==
    /\ globe # <<>>
    /\ globeErr = "none"
    /\ LET g == permanentObjectUnmounted(Globe(globe[1]))
       IN  /\ globe' = <<>>
           /\ SetGlobe(g)
    /\ UNCHANGED <<nInstances, diffVars, bridgeVars, appVars>>

InitGlobe == BridgeInit /\ ~containerless /\ GlobeIdle /\ AppIdle

NextGlobe ==
    \/ \E id \in Ids, layers \in GlobeLayerLists : MountGlobe(GlobeProps(id, layers))
    \/ \E layers \in GlobeLayerLists : ReceiveProps(layers)
    \/ UnmountGlobe

SpecGlobe == InitGlobe /\ [][NextGlobe]_vars

(***************************************************************************)
(* Properties of the external-object bridge                                *)
(***************************************************************************)
Events(kind) == {i \in DOMAIN trace : trace[i].kind = kind}

\* the objects constructed so far for id in store s
ObjectsOf(s, id) == {o \in 1..nObj : owner[o] = <<s, id>>}

\* C1: as long as forceRegeneration was not used on an id, mount, updates, unmount and
\* remount construct at most one external object for it: newContainer and
\* newExternalObject are called only when the store has no entry for the id, and a
\* mount that finds an entry attaches the container of that entry.
C1_ConstructedOnce ==
    /\ \A i \in Events("newContainer") \cup Events("newExternalObject") : ~trace[i].inStore
    /\ \A s \in StoreNames, id \in Ids :
          <<s, id>> \notin regenerated => Cardinality(ObjectsOf(s, id)) <= 1
    /\ \A i \in Events("mounted") :
          /\ trace[i].via = "mountExisting" =>
                \A j \in Events("newExternalObject") : j > i
          /\ trace[i].object \in ObjectsOf(trace[i].store, trace[i].id)

\* a remount: a new instance was mounted on an id whose object had been updated before
C1_Witness ==
    /\ comp = "mounted" /\ err = "none" /\ nObj = 1
    /\ Len(trace) = 4
    /\ trace[1].kind = "appendChild"
    /\ trace[2].kind = "mounted" /\ trace[2].via = "mountExisting"
    /\ trace[4].kind = "update" /\ trace[4].lastObj # UndefinedState

\* C2 as claimed: every update call for an id except the first one for that id gets
\* as prevState the nextState of the last completed update call for that id.
C2_PrevIsLastOfId ==
    \A i \in Events("update") :
        trace[i].lastId # UndefinedState => trace[i].prev = trace[i].lastId

\* C2 amended: every update call on an external object except the first one on that
\* object gets as prevState the nextState of the last completed update call on that
\* object, across unmount and remount too.
C2_PrevIsLastOfObject ==
    \A i \in Events("update") :
        trace[i].lastObj # UndefinedState => trace[i].prev = trace[i].lastObj

\* the first update after an unmount and a remount with changed props
C2_Witness ==
    /\ err = "none" /\ Len(trace) = 4
    /\ trace[2].kind = "mounted" /\ trace[2].via = "mountExisting"
    /\ trace[4].kind = "update"
    /\ trace[4].prev # UndefinedState
    /\ trace[4].prev # trace[4].next

\* the entries of the store, as <<store, id, object>>
Entries(stores) ==
    {<<s, id, stores[s][id].object>> : <<s, id>> \in
        {x \in StoreNames \X Ids : x[2] \in DOMAIN stores[x[1]]}}

C7_OneLiveObjectPerId ==
    \A s \in StoreNames, id \in Ids :
        Cardinality(ObjectsOf(s, id) \ destroyed) <= 1

(***************************************************************************)
(* Properties of the layer diff and its application                        *)
(***************************************************************************)
ActionTypes == {layerActions[i].type : i \in DOMAIN layerActions}

\* the stacks show the layers of the props, in their order
StacksShow(layers) ==
    /\ globeErr = "none"
    /\ imageryLayers = <<BaseLayer>> \o ImageryFor(layers)
    /\ dataSources = ImageryFor(layers)

RemovedAt(pos) ==
    /\ pos \in DOMAIN lastStateLayers
    /\ propsLayers = RemoveAt(lastStateLayers, pos)

\* C9: when next is previous with one layer deleted, the actions are one REMOVE at
\* the index of that layer and nothing else, and the imagery layers and the data
\* sources end as next.
C9_RemovalIsOneRemove ==
    \A pos \in 1..MaxLayers :
        globePc = "done" /\ RemovedAt(pos) =>
            /\ Len(layerActions) = 1
            /\ layerActions[1].type = "REMOVE"
            /\ layerActions[1].index = pos - 1
            /\ StacksShow(propsLayers)

\* the middle one of three layers was removed
C9_Witness ==
    /\ globePc = "done"
    /\ Len(lastStateLayers) = 3
    /\ RemovedAt(2)
    /\ Len(dataSources) = 2

\* next is a reordering of previous, with the same descriptors
Reordered ==
    /\ Len(propsLayers) = Len(lastStateLayers)
    /\ {propsLayers[i] : i \in DOMAIN propsLayers}
         = {lastStateLayers[i] : i \in DOMAIN lastStateLayers}
    /\ propsLayers # lastStateLayers

C26_MountCallbacksAlternate ==
    \A i \in DOMAIN trace :
        /\ trace[i].kind = "mounted" => ~trace[i].wasMounted
        /\ trace[i].kind = "unmounted" => trace[i].wasMounted

\* the step gives the mounted instance the props p, which differ in the id
IdChanges(p) ==
    /\ ReactUpdate(p)
    /\ p.id # props.id /\ p.id # EmptyId
    /\ StoreOf(p) = StoreOf(props)

\* C27: when the id of a mounted component changes from a to b, the update ends
\* with the container of the entry of b (created when b had none) in the parent
\* container and the container of a out of it; the entry of a stays, with its object
\* and the state last applied to it; and every update call of the step gave an
\* object the props of the id it was constructed for.
C27_IdChangeSwapsContainers ==
    [][\A p \in Props : IdChanges(p) =>
          LET s == StoreOf(props)
              a == props.id
              b == p.id
          IN  /\ err' = "none"
              /\ parentContainer' # Null
              /\ b \in DOMAIN externalObjectStores'[s]
              /\ externalObjectStores'[s][b].container \in children' \cup {0}
              /\ b \notin DOMAIN externalObjectStores[s] =>
                    externalObjectStores'[s][b].object = nObj'
              /\ a \in DOMAIN externalObjectStores'[s]
              /\ externalObjectStores'[s][a].container \notin children'
              /\ externalObjectStores'[s][a].object = externalObjectStores[s][a].object
              /\ externalObjectStores'[s][a].state = externalObjectStores[s][a].state
              /\ externalObjectStores'[s][a].state
                    = appliedObj'[externalObjectStores[s][a].object]
              /\ \A i \in DOMAIN trace' :
                    trace'[i].kind = "update" =>
                        /\ trace'[i].next[1].id = trace'[i].id
                        /\ owner'[trace'[i].object] = <<s, trace'[i].id>>]_vars

\* the id has changed to one whose object was in the store, and the object of the
\* former id has stayed there
C27_Witness ==
    /\ comp = "mounted" /\ err = "none"
    /\ \E i, j \in DOMAIN trace :
          /\ i < j
          /\ trace[i].kind = "unmounted" /\ trace[j].kind = "mounted"
          /\ trace[j].via = "mountExisting"
          /\ trace[i].id # trace[j].id /\ trace[j].id = props.id
          /\ trace[i].id \in DOMAIN externalObjectStores[trace[i].store]
          /\ externalObjectStores[trace[i].store][trace[i].id].container \notin children
          /\ externalObjectStores[trace[j].store][trace[j].id].container \in children

\* forceRegeneration() is called on an instance with the props p
Regenerates(p) ==
    \/ ForceRegeneration /\ p = props
    \/ ForceRegenerationDetached(p)

\* the store holds an entry for the id of p
HasEntry(p) == p.id \in DOMAIN externalObjectStores[StoreOf(p)]

\* the step has put a newly constructed object in the place of the entry of p: its
\* container is in the parent container, the old one is not, and the first update
\* call on the new object got an undefined previous state
Replaced(p) ==
    LET s == StoreOf(p)
        old == externalObjectStores[s][p.id]
    IN  /\ nObj' = nObj + 1
        /\ p.id \in DOMAIN externalObjectStores'[s]
        /\ externalObjectStores'[s][p.id].object = nObj'
        /\ externalObjectStores'[s][p.id].object # old.object
        /\ parentContainer' # Null
        /\ externalObjectStores'[s][p.id].container \in children' \cup {0}
        /\ old.container \notin children'
        /\ \E i \in DOMAIN trace' :
              /\ trace'[i].kind = "update" /\ trace'[i].object = nObj'
              /\ trace'[i].prev = UndefinedState
              /\ \A j \in 1..(i - 1) : trace'[j].kind # "update"

\* the step has deleted the entry of p and constructed nothing
Dropped(p) ==
    LET s == StoreOf(p)
    IN  /\ externalObjectStores' =
              [externalObjectStores EXCEPT ![s] = DeleteRef(@, p.id)]
        /\ UNCHANGED <<nObj, children, parentContainer, owner, appliedObj, err>>

\* the step has changed nothing of the component and its stores
NothingChanged ==
    UNCHANGED <<externalObjectStores, nObj, children, parentContainer, owner, destroyed,
                appliedObj, appliedId, regenerated, err>>

C21_PrevIsLastApplied ==
    /\ lastDiff # <<>> => lastDiff[1].lastLayers = lastDiff[1].applied
    /\ \A id \in Ids : viewers[id] # <<>> =>
          \A i, j \in DOMAIN viewers[id][1].imageryLayers :
              i # j => viewers[id][1].imageryLayers[i].id # viewers[id][1].imageryLayers[j].id

Status_NEW == "NEW"
Status_SUBMITTED == "SUBMITTED"
Status_IN_PROGRESS == "IN_PROGRESS"
Status_SUCCEEDED == "SUCCEEDED"
Status_FAILED == "FAILED"
Status_CANCELLED == "CANCELLED"
JobStatusEnum == {Status_NEW, Status_SUBMITTED, Status_IN_PROGRESS, Status_SUCCEEDED, Status_FAILED, Status_CANCELLED}

\* the jobs, by their numeric id
JobIds == {1, 2}
\* progress notifications the backend sends in a run
MaxProgress == 3
\* the totals of a progress notification: unknown (0) or known
Totals == {0, MaxProgress}
\* the messages of a failure; a failure may come without a message
FailureMessages == {"", "boom"}
\* the title of a job's task; a task may have none
TitleOf(jobId) == IF jobId = 1 THEN "" ELSE "open"

\* an optional field is <<>> when absent and <<value>> when present
Absent == <<>>
Some(v) == <<v>>

\* TaskState: status, progress?, failure?, title?
TaskState(status, progress, failure, title) ==
    [status |-> status, progress |-> progress, failure |-> failure, title |-> title]

\* a bug: a SUBMITTED task is not taken as running
isRunningUnlessSubmitted(tastState) ==
    \/ tastState.status = Status_NEW
    \/ tastState.status = Status_IN_PROGRESS

isRunning(tastState) ==
    \/ tastState.status = Status_NEW
    \/ tastState.status = Status_SUBMITTED
    \/ tastState.status = Status_IN_PROGRESS

\* a bug: the total of the progress is not looked at
isMakingProgressAnyTotal(tastState) ==
    /\ tastState.status = Status_IN_PROGRESS
    /\ tastState.progress # Absent
    /\ tastState.progress[1].worked # 0

isMakingProgress(tastState) ==
    /\ tastState.status = Status_IN_PROGRESS
    /\ tastState.progress # Absent
    /\ tastState.progress[1].worked # 0
    /\ tastState.progress[1].total > 0

\* the activity render() shows when nothing is shown
NoActivity == [kind |-> "none", value |-> Absent, cancelButton |-> FALSE, message |-> Absent]

\* a bug: the cancelable progress is shown for whatever task has progress
activityIgnoringStatus(taskState) ==
    IF /\ taskState.progress # Absent
       /\ taskState.progress[1].worked # 0
       /\ taskState.progress[1].total > 0
    THEN [kind |-> "ProgressBar",
          value |-> Some(<<taskState.progress[1].worked, taskState.progress[1].total>>),
          cancelButton |-> TRUE,
          message |-> Absent]
    ELSE IF isRunning(taskState)
         THEN [NoActivity EXCEPT !.kind = "ProgressBar"]
         ELSE NoActivity

\* render(): activity. A ProgressBar without a value is the indeterminate one; its
\* value worked / total is kept as the pair <<worked, total>>
activity(taskState) ==
    IF isRunning(taskState)
    THEN IF isMakingProgress(taskState)
         THEN [kind |-> "ProgressBar",
               value |-> Some(<<taskState.progress[1].worked, taskState.progress[1].total>>),
               cancelButton |-> TRUE,
               message |-> IF /\ taskState.progress # Absent
                              /\ taskState.progress[1].message # ""
                           THEN Some(taskState.progress[1].message)
                           ELSE Absent]
         ELSE [NoActivity EXCEPT !.kind = "ProgressBar"]
    ELSE NoActivity

\* render(): errorMsg, the failure message and the button that calls onRemoveJob
NoErrorMsg == [message |-> Absent, removeButton |-> FALSE]

errorMsg(taskState) ==
    IF taskState.failure # Absent /\ taskState.failure[1].message # ""
    THEN [message |-> Some(taskState.failure[1].message), removeButton |-> TRUE]
    ELSE NoErrorMsg

render(taskState, jobId) ==
    [title |-> IF taskState.title # "" THEN taskState.title ELSE <<"Task #", jobId>>,
     activity |-> activity(taskState),
     errorMsg |-> errorMsg(taskState)]

(***************************************************************************)
(* The remote job layer: one job per remote call, its task in the state    *)
(* of the application, and the backend that answers it                     *)
(***************************************************************************)
\* a message of the backend about one job
Message(kind, worked, total, message) ==
    [kind |-> kind, worked |-> worked, total |-> total, message |-> message]

\* what the backend has done for a job: phase "idle", "running" or "done", the
\* number of progress notifications sent, the acknowledgment of a cancellation
\* request
BackendIdle == [phase |-> "idle", sent |-> 0, acked |-> FALSE]

\* the statuses that are final
IsTerminal(status) == status \in {Status_SUCCEEDED, Status_FAILED, Status_CANCELLED}

StatusOf(jobId) == IF tasks[jobId] = Absent THEN "none" ELSE tasks[jobId][1].status

\* a bug: a message is applied whatever the status of the task
onMessageWhateverStatus(taskState, msg) ==
    IF msg.kind = "progress"
    THEN [taskState EXCEPT !.status = Status_IN_PROGRESS,
                           !.progress = Some([worked |-> msg.worked, total |-> msg.total,
                                              message |-> msg.message])]
    ELSE IF msg.kind = "response"
    THEN [taskState EXCEPT !.status = Status_SUCCEEDED]
    ELSE IF msg.kind = "error"
    THEN [taskState EXCEPT !.status = Status_FAILED,
                           !.failure = Some([message |-> msg.message, code |-> 1])]
    ELSE [taskState EXCEPT !.status = Status_CANCELLED]

\* the task after a message of the backend arrived for its job: progress, the
\* response, an error or the acknowledgment of a cancellation. A job that has
\* ended is final and the message is dropped
onMessage(taskState, msg) ==
    IF IsTerminal(taskState.status)
    THEN taskState
    ELSE IF msg.kind = "progress"
    THEN [taskState EXCEPT !.status = Status_IN_PROGRESS,
                           !.progress = Some([worked |-> msg.worked, total |-> msg.total,
                                              message |-> msg.message])]
    ELSE IF msg.kind = "response"
    THEN [taskState EXCEPT !.status = Status_SUCCEEDED]
    ELSE IF msg.kind = "error"
    THEN [taskState EXCEPT !.status = Status_FAILED,
                           !.failure = Some([message |-> msg.message, code |-> 1])]
    ELSE [taskState EXCEPT !.status = Status_CANCELLED]

\* the task after its cancellation was requested: the request is sent at best
\* effort and the local handle is marked without waiting for the backend
cancel(taskState) ==
    IF IsTerminal(taskState.status)
    THEN taskState
    ELSE [taskState EXCEPT !.status = Status_CANCELLED]

\* the callback a message leads to
CallbackOf(msg) ==
    IF msg.kind = "progress" THEN "progress"
    ELSE IF msg.kind = "response" THEN "response"
    ELSE IF msg.kind = "error" THEN "failure"
    ELSE "cancelled"

\* a remote call is issued: its job is NEW
IssueJob(jobId) ==
    /\ tasks[jobId] = Absent
    /\ jobId \notin removedJobs
    /\ tasks' = [tasks EXCEPT ![jobId] = Some(TaskState(Status_NEW, Absent, Absent, TitleOf(jobId)))]
    /\ UNCHANGED <<removedJobs, backend, channel, delivered, cancelRequested, cancelSent>>
    /\ UNCHANGED <<bridgeVars, globeVars, apiVars, mainVars>>

\* the request of a NEW job is sent: SUBMITTED, or FAILED when the backend cannot
\* be reached
SubmitJob(jobId, reachable) ==
    /\ StatusOf(jobId) = Status_NEW
    /\ IF reachable
       THEN /\ tasks' = [tasks EXCEPT ![jobId][1].status = Status_SUBMITTED]
            /\ backend' = [backend EXCEPT ![jobId].phase = "running"]
            /\ delivered' = delivered
       ELSE /\ tasks' = [tasks EXCEPT ![jobId] =
                            Some(onMessage(@[1], Message("error", 0, 0, "boom")))]
            /\ backend' = backend
            /\ delivered' = [delivered EXCEPT ![jobId] = Append(@, "failure")]
    /\ UNCHANGED <<removedJobs, channel, cancelRequested, cancelSent>>
    /\ UNCHANGED <<bridgeVars, globeVars, apiVars, mainVars>>

\* the transport holds a bounded number of messages of a job
HasRoom(jobId) == Len(channel[jobId]) < 2

\* the progress notifications sent so far
SentTotal == backend[1].sent + backend[2].sent

\* the backend reports progress: worked never decreases, the notification after
\* n others has worked n or n + 1
BackendProgress(jobId, worked, total) ==
    /\ backend[jobId].phase = "running"
    /\ HasRoom(jobId)
    /\ SentTotal < MaxProgress
    /\ worked \in {backend[jobId].sent, backend[jobId].sent + 1}
    /\ backend' = [backend EXCEPT ![jobId].sent = @ + 1]
    /\ channel' = [channel EXCEPT ![jobId] =
                      Append(@, Message("progress", worked, total,
                                        IF total > 0 THEN "reading" ELSE ""))]
    /\ UNCHANGED <<tasks, removedJobs, delivered, cancelRequested, cancelSent>>
    /\ UNCHANGED <<bridgeVars, globeVars, apiVars, mainVars>>

\* the backend ends the job with its one outcome: the response or an error
BackendOutcome(jobId, kind, message) ==
    /\ backend[jobId].phase = "running"
    /\ HasRoom(jobId)
    /\ backend' = [backend EXCEPT ![jobId].phase = "done"]
    /\ channel' = [channel EXCEPT ![jobId] = Append(@, Message(kind, 0, 0, message))]
    /\ UNCHANGED <<tasks, removedJobs, delivered, cancelRequested, cancelSent>>
    /\ UNCHANGED <<bridgeVars, globeVars, apiVars, mainVars>>

\* the backend acknowledges a cancellation request; it need not stop the job
BackendAcknowledge(jobId) ==
    /\ jobId \in cancelSent
    /\ ~backend[jobId].acked
    /\ HasRoom(jobId)
    /\ backend' = [backend EXCEPT ![jobId].acked = TRUE]
    /\ channel' = [channel EXCEPT ![jobId] = Append(@, Message("cancelAck", 0, 0, ""))]
    /\ UNCHANGED <<tasks, removedJobs, delivered, cancelRequested, cancelSent>>
    /\ UNCHANGED <<bridgeVars, globeVars, apiVars, mainVars>>

\* the next message of a job arrives at the client; a message for a job that has
\* ended or was removed leads to no callback
Receive(jobId) ==
    /\ channel[jobId] # <<>>
    /\ LET msg == Head(channel[jobId])
       IN  /\ channel' = [channel EXCEPT ![jobId] = Tail(@)]
           /\ IF tasks[jobId] = Absent
              THEN /\ tasks' = tasks
                   /\ delivered' = delivered
              ELSE LET next == onMessage(tasks[jobId][1], msg)
                   IN  /\ tasks' = [tasks EXCEPT ![jobId] = Some(next)]
                       /\ delivered' = IF next = tasks[jobId][1] /\ IsTerminal(next.status)
                                       THEN delivered
                                       ELSE [delivered EXCEPT ![jobId] =
                                                Append(@, CallbackOf(msg))]
    /\ UNCHANGED <<removedJobs, backend, cancelRequested, cancelSent>>
    /\ UNCHANGED <<bridgeVars, globeVars, apiVars, mainVars>>

\* the user presses the cancel button of a task: onCancelJob(jobId)
CancelJob(jobId, reachable) ==
    /\ tasks[jobId] # Absent
    /\ render(tasks[jobId][1], jobId).activity.cancelButton
    /\ jobId \notin cancelRequested
    /\ cancelRequested' = cancelRequested \cup {jobId}
    /\ cancelSent' = IF reachable THEN cancelSent \cup {jobId} ELSE cancelSent
    /\ LET next == cancel(tasks[jobId][1])
       IN  /\ tasks' = [tasks EXCEPT ![jobId] = Some(next)]
           /\ delivered' = IF next.status # tasks[jobId][1].status
                           THEN [delivered EXCEPT ![jobId] = Append(@, "cancelled")]
                           ELSE delivered
    /\ UNCHANGED <<removedJobs, backend, channel>>
    /\ UNCHANGED <<bridgeVars, globeVars, apiVars, mainVars>>

\* the user presses the remove button of a task: onRemoveJob(jobId)
RemoveJob(jobId) ==
    /\ tasks[jobId] # Absent
    /\ render(tasks[jobId][1], jobId).errorMsg.removeButton
    /\ tasks' = [tasks EXCEPT ![jobId] = Absent]
    /\ removedJobs' = removedJobs \cup {jobId}
    /\ UNCHANGED <<backend, channel, delivered, cancelRequested, cancelSent>>
    /\ UNCHANGED <<bridgeVars, globeVars, apiVars, mainVars>>

JobInit ==
    /\ tasks = [j \in JobIds |-> Absent]
    /\ removedJobs = {}
    /\ backend = [j \in JobIds |-> BackendIdle]
    /\ channel = [j \in JobIds |-> <<>>]
    /\ delivered = [j \in JobIds |-> <<>>]
    /\ cancelRequested = {}
    /\ cancelSent = {}

InitJob == BridgeInit /\ ~containerless /\ GlobeIdle /\ JobInit /\ ApiIdle /\ MainIdle

NextJob ==
    \/ \E j \in JobIds : IssueJob(j)
    \/ \E j \in JobIds, reachable \in BOOLEAN : SubmitJob(j, reachable)
    \/ \E j \in JobIds, worked \in 0..MaxProgress, total \in Totals :
          BackendProgress(j, worked, total)
    \/ \E j \in JobIds, message \in FailureMessages :
          \/ BackendOutcome(j, "response", "")
          \/ BackendOutcome(j, "error", message)
    \/ \E j \in JobIds : BackendAcknowledge(j)
    \/ \E j \in JobIds : Receive(j)
    \/ \E j \in JobIds, reachable \in BOOLEAN : CancelJob(j, reachable)
    \/ \E j \in JobIds : RemoveJob(j)

SpecJob == InitJob /\ [][NextJob]_vars

(***************************************************************************)
(* Properties of the job layer and of the task view                        *)
(***************************************************************************)
\* the place of a status on the way NEW, SUBMITTED, IN_PROGRESS, ended
Rank(status) ==
    IF status = Status_NEW THEN 0
    ELSE IF status = Status_SUBMITTED THEN 1
    ELSE IF status = Status_IN_PROGRESS THEN 2
    ELSE 3

C12_ProgressBeforeOneOutcome ==
    \A j \in JobIds :
        LET outcomes == {i \in DOMAIN delivered[j] : delivered[j][i] # "progress"}
        IN  /\ Cardinality(outcomes) <= 1
            /\ \A i \in outcomes : i = Len(delivered[j])

\* two jobs were outstanding together, and each had progress and then its outcome
C12_Witness ==
    /\ \A j \in JobIds :
          /\ Len(delivered[j]) >= 2
          /\ delivered[j][1] = "progress"
          /\ delivered[j][Len(delivered[j])] # "progress"
    /\ delivered[1] # delivered[2]

C14_IndeterminateWithoutTotal ==
    \A j \in JobIds :
        tasks[j] # Absent =>
            LET taskState == tasks[j][1]
            IN  (/\ isRunning(taskState)
                 /\ \/ taskState.progress = Absent
                    \/ taskState.progress[1].total <= 0)
                => /\ render(taskState, j).activity.kind = "ProgressBar"
                   /\ render(taskState, j).activity.value = Absent

\* a task IN_PROGRESS with work done and no known total, and a running one without
\* a progress record
C14_Witness ==
    /\ StatusOf(1) = Status_IN_PROGRESS
    /\ tasks[1][1].progress # Absent
    /\ tasks[1][1].progress[1].worked > 0
    /\ tasks[1][1].progress[1].total = 0
    /\ StatusOf(2) = Status_SUBMITTED
    /\ tasks[2][1].progress = Absent

\* C25 (as claimed): the view of a task has the ProgressBar with the value
\* worked / total and the Cancel button exactly when the task is IN_PROGRESS with a
\* progress record whose total is positive, also when nothing is worked yet.
C25_CancelWheneverTotalKnown ==
    \A j \in JobIds :
        tasks[j] # Absent =>
            LET taskState == tasks[j][1]
                shown == render(taskState, j).activity
            IN  (shown.kind = "ProgressBar" /\ shown.value # Absent /\ shown.cancelButton)
                <=> /\ taskState.status = Status_IN_PROGRESS
                    /\ taskState.progress # Absent
                    /\ taskState.progress[1].total > 0

\* C19 (as claimed): the view of a FAILED or CANCELLED task has the button that
\* calls onRemoveJob, and the view of a FAILED task shows the failure
C19_EndedTaskCanBeRemoved ==
    \A j \in JobIds :
        (tasks[j] # Absent /\ StatusOf(j) \in {Status_FAILED, Status_CANCELLED}) =>
            /\ render(tasks[j][1], j).errorMsg.removeButton
            /\ StatusOf(j) = Status_FAILED =>
                  /\ tasks[j][1].failure # Absent
                  /\ render(tasks[j][1], j).errorMsg.message
                        = Some(tasks[j][1].failure[1].message)

(***************************************************************************)
(* WorkspaceAPI and BackendConfigAPI: the remote calls and the translation *)
(* of their responses                                                      *)
(***************************************************************************)
\* an object is a function from its keys to values; a value is <<>> (undefined)
\* or <<v>>. Reading a key the object does not have gives undefined
Field(obj, key) == IF key \in DOMAIN obj THEN obj[key] ELSE Absent

\* the keys of WorkspaceState and the field of the response each is read from
WorkspaceFields ==
    [baseDir |-> "base_dir", description |-> "description", isScratch |-> "is_scratch",
     isModified |-> "is_modified", isSaved |-> "is_saved", workflow |-> "workflow",
     resources |-> "resources"]

\* a bug: isScratch is read from is_saved
responseToWorkspaceMixedUp(workspaceResponse) ==
    IF workspaceResponse = Absent
    THEN Absent
    ELSE Some([k \in DOMAIN WorkspaceFields |->
                  IF k = "isScratch"
                  THEN Field(workspaceResponse[1], "is_saved")
                  ELSE Field(workspaceResponse[1], WorkspaceFields[k])])

\* a falsy response gives null; any other gives an object with all seven keys
responseToWorkspace(workspaceResponse) ==
    IF workspaceResponse = Absent
    THEN Absent
    ELSE Some([k \in DOMAIN WorkspaceFields |->
                  Field(workspaceResponse[1], WorkspaceFields[k])])

\* the keys of BackendConfigState and the field of the response each is read from
ConfigFields ==
    [dataStoresPath |-> "data_stores_path",
     useWorkspaceImageryCache |-> "use_workspace_imagery_cache"]

fromPythonConfig(configResponse) ==
    IF configResponse = Absent
    THEN Absent
    ELSE Some([k \in DOMAIN ConfigFields |-> Field(configResponse[1], ConfigFields[k])])

\* no configuration gives {}, the object without keys
toPythonConfig(backendConfig) ==
    IF backendConfig = Absent
    THEN <<>>
    ELSE [f \in {ConfigFields[k] : k \in DOMAIN ConfigFields} |->
             Field(backendConfig[1], CHOOSE k \in DOMAIN ConfigFields : ConfigFields[k] = f)]

\* WebAPIClient.call(method, params, onProgress, transformer): the call as issued;
\* onProgress tells whether a progress callback was given, transformer names the
\* function given to translate the response, "none" when none is given
call(method, params, onProgress, transformer) ==
    [method |-> method, params |-> params, onProgress |-> onProgress,
     transformer |-> transformer]

\* what the promise of a call resolves with: the response as the transformer
\* translates it, and the response itself when the call has no transformer
Transform(transformer, response) ==
    IF transformer = "responseToWorkspace" THEN responseToWorkspace(response)
    ELSE IF transformer = "fromPythonConfig" THEN fromPythonConfig(response)
    ELSE response

\* WorkspaceAPI
newWorkspace(baseDir) ==
    call("new_workspace", <<baseDir>>, FALSE, "responseToWorkspace")
openWorkspace(baseDir, onProgress) ==
    call("open_workspace", <<baseDir>>, onProgress, "responseToWorkspace")
closeWorkspace(baseDir) ==
    call("close_workspace", <<baseDir>>, FALSE, "none")
saveWorkspace(baseDir) ==
    call("save_workspace", <<baseDir>>, FALSE, "responseToWorkspace")
saveWorkspaceAs(baseDir, toDir, onProgress) ==
    call("save_workspace_as", <<baseDir, toDir>>, onProgress, "responseToWorkspace")
cleanWorkspace(baseDir) ==
    call("clean_workspace", <<baseDir>>, FALSE, "responseToWorkspace")
setWorkspaceResource(baseDir, resName, opName, opArgs, onProgress) ==
    call("set_workspace_resource", <<baseDir, resName, opName, opArgs>>, onProgress,
         "responseToWorkspace")
renameWorkspaceResource(baseDir, resName, newResName) ==
    call("rename_workspace_resource", <<baseDir, resName, newResName>>, FALSE,
         "responseToWorkspace")
deleteWorkspaceResource(baseDir, resName) ==
    call("delete_workspace_resource", <<baseDir, resName>>, FALSE, "responseToWorkspace")
getWorkspaceVariableStatistics(baseDir, resName, varName, varIndex) ==
    call("get_workspace_variable_statistics", <<baseDir, resName, varName, varIndex>>,
         FALSE, "none")

\* BackendConfigAPI
getBackendConfig == call("get_config", <<>>, FALSE, "fromPythonConfig")
setBackendConfig(config) == call("set_config", <<toPythonConfig(config)>>, FALSE, "none")

(***************************************************************************)
(* WorkspacePanel: the calls it makes when mounted, and the clients of the *)
(* two APIs                                                                *)
(***************************************************************************)
\* remote calls a run may issue
MaxCalls == 2

\* lastWorkspacePath: "" stands for the falsy paths, null and the empty string
LastWorkspacePaths == {"", "/x"}

\* the props of the WorkspacePanel that componentDidMount reads
PanelProps(ws, openLastWorkspace, lastWorkspacePath) ==
    [workspace |-> ws, openLastWorkspace |-> openLastWorkspace,
     lastWorkspacePath |-> lastWorkspacePath]

\* the state the handlers of the panel work on
Client ==
    [calls |-> calls, pending |-> pending, workspace |-> workspace, results |-> results,
     failures |-> failures, recorded |-> recorded, console |-> console]

\* a call is issued; handler names the code that waits for its promise
Issue(c, aCall, handler) ==
    [c EXCEPT !.calls = Append(@, [call |-> aCall, handler |-> handler]),
              !.pending = @ \cup {Len(c.calls) + 1},
              !.results = Append(@, Absent)]

\* dispatch(actions.setCurrentWorkspace(workspace))
setCurrentWorkspace(c, ws) == [c EXCEPT !.workspace = ws]

\* createInitialWorkspace(): the call, and what follows its promise
createInitialWorkspace(c) == Issue(c, newWorkspace(Absent), "createInitialWorkspace")

createInitialWorkspaceThen(c, ws) == setCurrentWorkspace(c, ws)

\* a bug: the failed call is made again
createInitialWorkspaceRetrying(c, error) ==
    createInitialWorkspace([c EXCEPT !.console = @ + 1])

\* .catch: console.error(error)
createInitialWorkspaceCatch(c, error) == [c EXCEPT !.console = @ + 1]

\* openExistingWorkspace(workspacePath): the call is made without onProgress
openExistingWorkspace(c, workspacePath) ==
    Issue(c, openWorkspace(Some(workspacePath), FALSE), "openExistingWorkspace")

openExistingWorkspaceThen(c, ws) == setCurrentWorkspace(c, ws)

\* .catch: console.error(error); this.createInitialWorkspace()
openExistingWorkspaceCatch(c, error) ==
    createInitialWorkspace([c EXCEPT !.console = @ + 1])

componentDidMount(c, p) ==
    IF p.workspace = Absent
    THEN IF p.openLastWorkspace /\ p.lastWorkspacePath # ""
         THEN openExistingWorkspace(c, p.lastWorkspacePath)
         ELSE createInitialWorkspace(c)
    ELSE c

\* a client of the APIs other than the panel: what the promise resolves with goes
\* to the state of the application, a failure becomes a state update of its job
clientThen(c, value) == c

clientCatch(c, index, error) == [c EXCEPT !.recorded = @ \cup {index}]

\* the promise of call index resolves with value
resolved(c, index, value) ==
    LET handler == c.calls[index].handler
    IN  IF handler = "createInitialWorkspace" THEN createInitialWorkspaceThen(c, value)
        ELSE IF handler = "openExistingWorkspace" THEN openExistingWorkspaceThen(c, value)
        ELSE clientThen(c, value)

\* the promise of call index is rejected with error
rejected(c, index, error) ==
    LET handler == c.calls[index].handler
    IN  IF handler = "createInitialWorkspace" THEN createInitialWorkspaceCatch(c, error)
        ELSE IF handler = "openExistingWorkspace" THEN openExistingWorkspaceCatch(c, error)
        ELSE clientCatch(c, index, error)

\* the calls the clients of the APIs make on a user's action
baseDir == Some("/x")
UserCalls ==
    {newWorkspace(baseDir), openWorkspace(baseDir, TRUE), closeWorkspace(baseDir),
     saveWorkspace(baseDir), saveWorkspaceAs(baseDir, Some("/y"), TRUE),
     cleanWorkspace(baseDir),
     setWorkspaceResource(baseDir, Some("res_1"), Some("op"), Some("args"), TRUE),
     renameWorkspaceResource(baseDir, Some("res_1"), Some("res_2")),
     deleteWorkspaceResource(baseDir, Some("res_1")),
     getWorkspaceVariableStatistics(baseDir, Some("res_1"), Some("var"), Absent),
     getBackendConfig,
     setBackendConfig(Some([dataStoresPath |-> Some("/d"),
                            useWorkspaceImageryCache |-> Some(TRUE)])),
     setBackendConfig(Absent)}

\* the responses of the backend to a call: the fields of a workspace, all or only
\* base_dir and is_scratch, with or without a field the client knows nothing of;
\* the fields of the configuration; statistics; or nothing
FullWorkspace ==
    [base_dir |-> Some("/x"), description |-> Some("d"), is_scratch |-> Some(FALSE),
     is_modified |-> Some(TRUE), is_saved |-> Some(TRUE), workflow |-> Some("wf"),
     resources |-> Some("rs")]
WorkspaceResponses ==
    {Absent,
     Some([base_dir |-> Some("/x"), is_scratch |-> Some(TRUE)]),
     Some([f \in DOMAIN FullWorkspace \cup {"unmapped"} |->
              IF f = "unmapped" THEN Some("u") ELSE FullWorkspace[f]])}
ConfigResponses ==
    {Some([data_stores_path |-> Some("/d"), use_workspace_imagery_cache |-> Some(TRUE)]),
     Some([data_stores_path |-> Some("/d"), unmapped |-> Some("u")])}
OtherResponses == {Absent, Some([min |-> Some(0), max |-> Some(1)])}

Responses == WorkspaceResponses \cup ConfigResponses \cup OtherResponses

ResponsesTo(aCall) ==
    IF aCall.method \in {"close_workspace", "set_config", "get_workspace_variable_statistics"}
    THEN OtherResponses
    ELSE IF aCall.method = "get_config" THEN ConfigResponses
    ELSE WorkspaceResponses

Apply(c) ==
    /\ calls' = c.calls
    /\ pending' = c.pending
    /\ workspace' = c.workspace
    /\ results' = c.results
    /\ failures' = c.failures
    /\ recorded' = c.recorded
    /\ console' = c.console

\* React mounts the WorkspacePanel with the workspace of the state and the session
MountPanel(openLastWorkspace, lastWorkspacePath) ==
    /\ panel = Absent
    /\ LET p == PanelProps(workspace, openLastWorkspace, lastWorkspacePath)
           c == componentDidMount(Client, p)
       IN  /\ Len(c.calls) <= MaxCalls
           /\ panel' = Some("WorkspacePanel")
           /\ Apply(c)
    /\ UNCHANGED <<bridgeVars, globeVars, jobVars, mainVars>>

UnmountPanel ==
    /\ panel # Absent
    /\ panel' = Absent
    /\ UNCHANGED <<calls, pending, workspace, results, failures, recorded, console>>
    /\ UNCHANGED <<bridgeVars, globeVars, jobVars, mainVars>>

\* the user has a client of the APIs make a call
UserCall(aCall) ==
    /\ Len(calls) < MaxCalls
    /\ Cardinality({i \in DOMAIN calls : calls[i].handler = "client"}) < MaxCalls - 1
    /\ Apply(Issue(Client, aCall, "client"))
    /\ UNCHANGED panel
    /\ UNCHANGED <<bridgeVars, globeVars, jobVars, mainVars>>

\* the backend answers a call
Resolve(index, response) ==
    /\ index \in pending
    /\ response \in ResponsesTo(calls[index].call)
    /\ LET value == Transform(calls[index].call.transformer, response)
           c == [Client EXCEPT !.pending = @ \ {index},
                               !.results[index] = Some([response |-> response,
                                                        value |-> value])]
       IN  Apply(resolved(c, index, value))
    /\ UNCHANGED panel
    /\ UNCHANGED <<bridgeVars, globeVars, jobVars, mainVars>>

\* a call fails
Reject(index) ==
    /\ index \in pending
    /\ LET c == [Client EXCEPT !.pending = @ \ {index}, !.failures = Append(@, index)]
           d == rejected(c, index, "error")
       IN  /\ Len(d.calls) <= MaxCalls
           /\ Apply(d)
    /\ UNCHANGED panel
    /\ UNCHANGED <<bridgeVars, globeVars, jobVars, mainVars>>

ApiInit ==
    /\ panel = Absent
    /\ calls = <<>>
    /\ pending = {}
    /\ workspace = Absent
    /\ results = <<>>
    /\ failures = <<>>
    /\ recorded = {}
    /\ console = 0

InitApi == BridgeInit /\ ~containerless /\ GlobeIdle /\ JobIdle /\ ApiInit /\ MainIdle

NextApi ==
    \/ \E o \in BOOLEAN, path \in LastWorkspacePaths : MountPanel(o, path)
    \/ UnmountPanel
    \/ \E aCall \in UserCalls : UserCall(aCall)
    \/ \E i \in 1..MaxCalls, response \in Responses : Resolve(i, response)
    \/ \E i \in 1..MaxCalls : Reject(i)

SpecApi == InitApi /\ [][NextApi]_vars

(***************************************************************************)
(* Properties of the response translation and of the failures of calls     *)
(***************************************************************************)
\* the calls that have resolved
Resolved == {i \in DOMAIN results : results[i] # Absent}

\* the resolved calls that went through responseToWorkspace with a response that
\* has the fields base_dir and is_scratch and no other
TwoFieldResponses ==
    {i \in Resolved :
        /\ calls[i].call.transformer = "responseToWorkspace"
        /\ results[i][1].response # Absent
        /\ DOMAIN results[i][1].response[1] = {"base_dir", "is_scratch"}}

\* C15 (as claimed): a response with only base_dir and is_scratch is translated to
\* an object whose keys are exactly baseDir and isScratch, with the same values
C15_OnlyTwoKeys ==
    \A i \in TwoFieldResponses :
        LET response == results[i][1].response[1]
            value == results[i][1].value[1]
        IN  /\ DOMAIN value = {"baseDir", "isScratch"}
            /\ value["baseDir"] = response["base_dir"]
            /\ value["isScratch"] = response["is_scratch"]

\* C15 (amended): a response with only base_dir and is_scratch is translated to an
\* object with the seven keys of WorkspaceState, of which baseDir and isScratch
\* carry the values of the response and the other five are undefined
C15_SevenKeysTwoValues ==
    \A i \in TwoFieldResponses :
        LET response == results[i][1].response[1]
            value == results[i][1].value[1]
        IN  /\ DOMAIN value = {"baseDir", "description", "isScratch", "isModified",
                               "isSaved", "workflow", "resources"}
            /\ value["baseDir"] = response["base_dir"]
            /\ value["isScratch"] = response["is_scratch"]
            /\ value["baseDir"] # Absent /\ value["isScratch"] # Absent
            /\ \A k \in DOMAIN value \ {"baseDir", "isScratch"} : value[k] = Absent

\* a call has resolved with such a response
C15_Witness ==
    \E i \in TwoFieldResponses : calls[i].call.method = "save_workspace"

\* the keys some translation writes
MappedKeys == DOMAIN WorkspaceFields \cup DOMAIN ConfigFields

\* C16 (as claimed): every call whose promise carries a state for the UI has a
\* transformer, and what it resolves with has no key but the mapped ones
C16_EveryResponseTranslated ==
    \A i \in Resolved :
        calls[i].call.method \notin {"close_workspace", "set_config"} =>
            /\ calls[i].call.transformer # "none"
            /\ results[i][1].value # Absent => DOMAIN results[i][1].value[1] \subseteq MappedKeys

\* C17 (as claimed): every failed call is recorded by a state update
C17_EveryFailureRecorded ==
    \A k \in DOMAIN failures : failures[k] \in recorded

\* a call fails in this step
Fails == Len(failures') > Len(failures)

\* C18 (as claimed): in the step in which a call fails no call is issued
C18_NoCallAfterFailure ==
    [][Fails => calls' = calls]_vars

\* C18 (amended): in the step in which a call fails the failed call is not issued
\* again; the one call issued is new_workspace(null), once, when the failed call
\* is the open_workspace of the panel; and no call is issued when a call resolves
C18_NoRetryOfFailedCall ==
    [][/\ Fails =>
             LET failed == calls[failures'[Len(failures')]]
             IN  IF failed.handler = "openExistingWorkspace"
                 THEN calls' = Append(calls, [call |-> newWorkspace(Absent),
                                              handler |-> "createInitialWorkspace"])
                 ELSE calls' = calls
       /\ (~Fails /\ results' # results /\ Len(results') = Len(results)) => calls' = calls]_vars

\* the open_workspace of the panel failed, then the new_workspace that followed it,
\* and no call followed that
C18_Witness ==
    /\ Len(failures) = 2
    /\ Len(calls) = 2
    /\ calls[failures[1]].handler = "openExistingWorkspace"
    /\ calls[failures[2]].handler = "createInitialWorkspace"
    /\ pending = {}

(***************************************************************************)
(* OperationsPanel: applying an operation to get a new resource            *)
(***************************************************************************)
\* number of times a run confirms the dialog that applies an operation
MaxApplies == 3

\* the operations a user selects
OperationNames == {"op1", "op2"}

\* selectors.newResourceNameSelector(resources, resourceNamePrefix): the first name
\* prefix + n that no resource has; the number n stands for the name
newResourceNameSelector(resources) ==
    CHOOSE n \in 1..(Cardinality(resources) + 1) :
        n \notin resources /\ \A k \in 1..(n - 1) : k \in resources

\* state.data.workspace with the resources named
WorkspaceWith(resources) ==
    responseToWorkspace(Some([FullWorkspace EXCEPT !.resources = Some(resources)]))

\* mapStateToProps: newResourceName, from the resources of the workspace in the state
newResourceName(c) == newResourceNameSelector(c.workspace[1].resources[1])

\* actions.setWorkspaceResource(resName, opName, opArgs, title): the remote call
\* for the workspace of the state
dispatchSetWorkspaceResource(c, resName, opName) ==
    Issue(c, setWorkspaceResource(c.workspace[1].baseDir, Some(resName), Some(opName),
                                  Some("args"), TRUE),
          "setWorkspaceResource")

\* handleAddOpStepDialogClosed(actionId, dialogState): actionId is absent when the
\* dialog was cancelled
handleAddOpStepDialogClosed(c, actionId, opName) ==
    IF actionId # Absent
    THEN dispatchSetWorkspaceResource(c, newResourceName(c), opName)
    ELSE c

\* the user closes the dialog of the selected operation
CloseAddOpStepDialog(actionId, opName) ==
    /\ Len(calls) < MaxApplies
    /\ Apply(handleAddOpStepDialogClosed(Client, actionId, opName))
    /\ UNCHANGED panel
    /\ UNCHANGED <<bridgeVars, globeVars, jobVars, mainVars>>

\* the oldest outstanding call
Oldest == CHOOSE i \in pending : \A j \in pending : i <= j

\* the job of the oldest outstanding call completes: the workspace of the response
\* has the resource of the call, and becomes the workspace of the state
CompleteApply ==
    /\ pending # {}
    /\ LET index == Oldest
           resName == calls[index].call.params[2][1]
           response == Some([FullWorkspace EXCEPT
                                !.resources = Some(workspace[1].resources[1] \cup {resName})])
           value == Transform(calls[index].call.transformer, response)
           c == [Client EXCEPT !.pending = @ \ {index},
                               !.results[index] = Some([response |-> response,
                                                        value |-> value])]
       IN  Apply(setCurrentWorkspace(c, value))
    /\ UNCHANGED panel
    /\ UNCHANGED <<bridgeVars, globeVars, jobVars, mainVars>>

\* the job of the oldest outstanding call fails
FailApply ==
    /\ pending # {}
    /\ LET index == Oldest
           c == [Client EXCEPT !.pending = @ \ {index}, !.failures = Append(@, index)]
       IN  Apply(clientCatch(c, index, "error"))
    /\ UNCHANGED panel
    /\ UNCHANGED <<bridgeVars, globeVars, jobVars, mainVars>>

OpsInit ==
    /\ panel = Some("OperationsPanel")
    /\ calls = <<>>
    /\ pending = {}
    /\ workspace \in {WorkspaceWith(rs) : rs \in {{}, {1}, {2}, {1, 2}}}
    /\ results = <<>>
    /\ failures = <<>>
    /\ recorded = {}
    /\ console = 0

InitOps == BridgeInit /\ ~containerless /\ GlobeIdle /\ JobIdle /\ OpsInit /\ MainIdle

NextOps ==
    \/ \E actionId \in {Absent, Some("apply")}, opName \in OperationNames :
          CloseAddOpStepDialog(actionId, opName)
    \/ CompleteApply
    \/ FailApply

SpecOps == InitOps /\ [][NextOps]_vars

\* the resource name a call is issued with
ResNameOf(index) == calls[index].call.params[2]

\* C28 (as claimed): the set_workspace_resource calls of the panel that are
\* outstanding at the same time are issued with different new resource names.
C28_OutstandingNamesDiffer ==
    \A i, j \in pending : i # j => ResNameOf(i) # ResNameOf(j)

(***************************************************************************)
(* main.ts: the main process, its preferences and its main window          *)
(***************************************************************************)
\* the command lines the application is started with
ArgvChoices ==
    {<<>>, <<"--prefs", "p.json">>, <<"-p", "p.json">>, <<"--prefs">>,
     <<"--config", "c.js">>, <<"p.json", "--prefs">>}

\* the bounds a user gives the window
WindowBounds ==
    {[x |-> 0, y |-> 0, width |-> 1024, height |-> 768],
     [x |-> 10, y |-> 10, width |-> 640, height |-> 480]}

\* path.join(app.getPath('home'), '.cate') and the paths of the files in the model
getAppDataDir == "~/.cate"
DefaultPrefsFile == "~/.cate/cate-prefs.json"
DefaultConfigFile == "cate-config.js"
Paths == {DefaultPrefsFile, DefaultConfigFile, "--prefs", "-p", "--config", "-c", "p.json", "c.js"}

\* the state the handlers of the main process work on
Main ==
    [appDataDir |-> appDataDir, files |-> files, app |-> app, prefs |-> _prefs,
     config |-> _config, mainWindow |-> _mainWindow, win |-> win, err |-> "none"]

\* the first args[i] that is one of the options and is not the last argument
getOptionArg(options) ==
    LET args == argv
        hits == {i \in 1..Len(args) : args[i] \in options /\ i < Len(args)}
    IN  IF hits = {}
        THEN Absent
        ELSE Some(args[CHOOSE i \in hits : \A j \in hits : i <= j])

getConfigFile(m) ==
    LET file == getOptionArg({"--config", "-c"})
    IN  IF file # Absent /\ file # Some("")
        THEN file
        ELSE IF m.files[DefaultConfigFile] # Absent THEN Some(DefaultConfigFile) ELSE Absent

getPrefsFile ==
    LET file == getOptionArg({"--prefs", "-p"})
    IN  IF file # Absent /\ file # Some("")
        THEN file[1]
        ELSE DefaultPrefsFile

\* Config.set(key, value)
ConfigSet(data, key, value) ==
    [k \in DOMAIN data \cup {key} |-> IF k = key THEN Some(value) ELSE data[k]]

\* Config.load(file, callback): the data of the file, nothing when there is no
\* such file (the error goes to the callback, which logs it)
ConfigLoad(m, file) ==
    IF file # Absent /\ file[1] \in Paths /\ m.files[file[1]] # Absent
    THEN m.files[file[1]][1]
    ELSE <<>>

\* a file can be written when its directory is there
CanWrite(m, file) == file = DefaultPrefsFile => m.appDataDir = "dir"

\* Config.store(file, callback): the data is written to the file; an error goes to
\* the callback, which logs it
ConfigStore(m, data, file) ==
    IF CanWrite(m, file)
    THEN [m EXCEPT !.files[file] = Some(data)]
    ELSE m

\* fs.statSync throws when nothing is at the path; fs.mkdirSync throws when
\* something is
storePrefs(m) ==
    IF m.appDataDir = "missing"
    THEN [m EXCEPT !.err = "ENOENT"]
    ELSE IF m.appDataDir # "dir"
    THEN [m EXCEPT !.err = "EEXIST"]
    ELSE ConfigStore(m, m.prefs, getPrefsFile)

loadPrefs(m) == ConfigLoad(m, Some(getPrefsFile))

loadConfig(m) == ConfigLoad(m, getConfigFile(m))

\* init(): the preferences and the configuration are loaded, the handlers of
\* 'ready', 'window-all-closed' and 'activate' are registered
init(m) ==
    [m EXCEPT !.prefs = loadPrefs(m), !.config = loadConfig(m), !.app = "initialised"]

\* createMainWindow(): a BrowserWindow with the bounds of the preferences, or 800 x
\* 600; its dev tools are opened when the configuration says so
createMainWindow(m) ==
    LET fromPrefs == Field(m.prefs, "mainWindowBounds")
        mainWindowBounds == IF fromPrefs # Absent
                            THEN fromPrefs[1]
                            ELSE [width |-> 800, height |-> 600]
    IN  [m EXCEPT !.mainWindow = "window",
                  !.win = Some([bounds |-> mainWindowBounds,
                                devToolsOpened |-> Field(m.config, "devToolsOpened") = Some(TRUE),
                                extensions |-> Field(m.config, "devToolsExtensions"),
                                state |-> "open"])]

\* the handler of 'close': the bounds and the dev tools go to the preferences
onClose(m) ==
    LET p1 == ConfigSet(m.prefs, "mainWindowBounds", m.win[1].bounds)
        p2 == ConfigSet(p1, "devToolsOpened", m.win[1].devToolsOpened)
    IN  [m EXCEPT !.prefs = p2]

\* the handler of 'closed': storePrefs(); _mainWindow = null
onClosed(m) ==
    LET m1 == storePrefs(m)
    IN  IF m1.err # "none" THEN m1 ELSE [m1 EXCEPT !.mainWindow = "null"]

\* the handler of 'window-all-closed'
onWindowAllClosed(m) == IF platform # "darwin" THEN [m EXCEPT !.app = "quit"] ELSE m

\* the handler of 'activate'
onActivate(m) == IF m.mainWindow = "null" THEN createMainWindow(m) ELSE m

Set(m) ==
    /\ appDataDir' = m.appDataDir
    /\ files' = m.files
    /\ app' = m.app
    /\ _prefs' = m.prefs
    /\ _config' = m.config
    /\ _mainWindow' = m.mainWindow
    /\ win' = m.win
    /\ mainErr' = m.err
    /\ UNCHANGED <<argv, platform>>
    /\ UNCHANGED <<bridgeVars, globeVars, jobVars, apiVars>>

\* the application is started: the module is loaded and init() runs
Start ==
    /\ app \in {"off", "quit"}
    /\ Set(init([Main EXCEPT !.prefs = <<>>, !.config = <<>>, !.mainWindow = "undefined",
                             !.win = Absent]))

\* the app emits 'ready'
Ready ==
    /\ app = "initialised"
    /\ Set(createMainWindow([Main EXCEPT !.app = "ready"]))

\* the user moves or resizes the window
Resize(bounds) ==
    /\ win # Absent /\ win[1].state = "open"
    /\ win[1].bounds # bounds
    /\ Set([Main EXCEPT !.win[1].bounds = bounds])

\* the user opens or closes the dev tools
ToggleDevTools ==
    /\ win # Absent /\ win[1].state = "open"
    /\ Set([Main EXCEPT !.win[1].devToolsOpened = ~@])

\* the window is going to be closed: 'close'
Close ==
    /\ win # Absent /\ win[1].state = "open"
    /\ Set(onClose([Main EXCEPT !.win[1].state = "closing"]))

\* the window is closed: 'closed'
Closed ==
    /\ win # Absent /\ win[1].state = "closing"
    /\ Set(onClosed([Main EXCEPT !.win[1].state = "closed"]))

\* no window is left: 'window-all-closed'
WindowAllClosed ==
    /\ app = "ready"
    /\ win # Absent /\ win[1].state = "closed"
    /\ platform # "darwin"
    /\ Set(onWindowAllClosed(Main))

\* the dock icon is clicked: 'activate'
Activate ==
    /\ app = "ready"
    /\ platform = "darwin"
    /\ Set(onActivate(Main))

\* the user quits an application without windows
Quit ==
    /\ app = "ready"
    /\ platform = "darwin"
    /\ win # Absent /\ win[1].state = "closed"
    /\ Set([Main EXCEPT !.app = "quit"])

MainInit ==
    /\ argv \in ArgvChoices
    /\ platform \in {"linux", "darwin"}
    /\ appDataDir \in {"missing", "dir", "file"}
    /\ \E prefsFile \in {Absent, Some(<<>>)},
          configFile \in {Absent, Some([devToolsOpened |-> Some(TRUE)]),
                          Some([devToolsExtensions |-> Some(<<"ext">>)])} :
          files = [f \in Paths |->
                      IF f = DefaultPrefsFile /\ appDataDir = "dir" THEN prefsFile
                      ELSE IF f = DefaultConfigFile THEN configFile
                      ELSE Absent]
    /\ app = "off"
    /\ _prefs = <<>>
    /\ _config = <<>>
    /\ _mainWindow = "undefined"
    /\ win = Absent
    /\ mainErr = "none"

InitMain == BridgeInit /\ ~containerless /\ GlobeIdle /\ JobIdle /\ ApiIdle /\ MainInit

NextMain ==
    \/ Start
    \/ Ready
    \/ \E bounds \in WindowBounds : Resize(bounds)
    \/ ToggleDevTools
    \/ Close
    \/ Closed
    \/ WindowAllClosed
    \/ Activate
    \/ Quit

SpecMain == InitMain /\ [][NextMain]_vars

\* C20 (as claimed): once the main window is closed, the preferences file holds
\* the preferences with the bounds the window had at 'close', when the application
\* data directory is there and when it is not there yet
C20_PrefsStoredOnClose ==
    (win # Absent /\ win[1].state = "closed" /\ appDataDir \in {"dir", "missing"}) =>
        /\ files[getPrefsFile] # Absent
        /\ Field(files[getPrefsFile][1], "mainWindowBounds") = Some(win[1].bounds)

\* the step creates the main window when the application has started
WindowCreated ==
    /\ app = "initialised"
    /\ win' # Absent /\ win'[1].state = "open"

\* C24 (as claimed): the devToolsOpened value the preferences hold, recorded when the
\* main window was closed, decides whether the dev tools of a newly created main
\* window are opened.
C24_DevToolsFollowPrefs ==
    [][(WindowCreated /\ Field(_prefs', "devToolsOpened") # Absent) =>
          win'[1].devToolsOpened = Field(_prefs', "devToolsOpened")[1]]_vars

\* C29 (as claimed): after the main window has been closed the reference to it is
\* null, the condition under which a later 'activate' creates a new main window.
C29_ClosedWindowIsDereferenced ==
    (app = "ready" /\ win # Absent /\ win[1].state = "closed") => _mainWindow = "null"

\* the first of the arguments that is one of the options
FirstOption(options) ==
    LET hits == {i \in 1..Len(argv) : argv[i] \in options}
    IN  IF hits = {} THEN 0 ELSE CHOOSE i \in hits : \A j \in hits : i <= j

\* C30 (as claimed): getOptionArg(options) is the argument that directly follows
\* the first of the given options, and null when no option occurs or the option is
\* the last argument; with '--config F' getConfigFile is F, with '--prefs F'
\* getPrefsFile is F.
C30_OptionArgFollowsOption ==
    /\ \A options \in {{"--config", "-c"}, {"--prefs", "-p"}} :
          LET i == FirstOption(options)
          IN  getOptionArg(options) = IF i = 0 \/ i = Len(argv) THEN Absent
                                      ELSE Some(argv[i + 1])
    /\ argv = <<"--config", "c.js">> => getConfigFile(Main) = Some("c.js")
    /\ argv = <<"--prefs", "p.json">> => getPrefsFile = "p.json"

====
